---- MODULE Spec2Model ----
(***************************************************************************)
(* Model of the kouta base package: the Component ownership tree           *)
(* (Component / Root / Branch), its construction and teardown, and the     *)
(* posting of deferred calls to the event loop owned by a Root.            *)
(*                                                                         *)
(* A C++ destructor runs from the most derived class to the base: for a    *)
(* Branch, ~Branch's body, then Branch's members (m_component, m_worker),  *)
(* then ~Root (defaulted) and Root's member m_context, and only then       *)
(* ~Component, which deletes the remaining children and removes the object *)
(* from its parent.  The model keeps that order as the position ("pc") of  *)
(* each destructor frame on the call stack of the thread tearing down.     *)
(***************************************************************************)
EXTENDS Integers, Sequences, FiniteSets, TLC

\* ------------------------------------------------------------------ bounds
\* Number of component objects ever constructed in one run.
MaxComp == 3
\* Threads making deferred calls, and deferred calls made in one run.
NumProducers == 2
MaxPosts == 3
\* Longest Timer duration, in clock ticks, and waits armed in one run.
MaxDuration == 1
MaxStarts == 2
\* Versions registered in a MigrationManager.
NumVersions == 3
\* Width of std::size_t, in bits.
SizeBits == 3
\* Longest CallbackList.
MaxList == 3
\* Tasks posted next to a Timer.
MaxTasks == 1
\* Copies made of a CallbackList.
MaxCopies == 2

\* ------------------------------------------------------------- constants
Comp == 1..MaxComp
\* nullptr
NULL == 0
\* What context() yields when the parent chain ends in nullptr before a Root:
\* a null dereference, no event loop at all.
NoContext == 0

Producers == 1..NumProducers
\* Values a caller's variable takes.
Values == {"v1", "v2"}
\* No handler has been begun yet.
NoRun == [by |-> 0, n |-> 0, prev |-> 0, sent |-> "none", observed |-> "none", callerNow |-> "none",
          seq |-> 0, thread |-> 0]
\* Deferred and direct calls are numbered in the order they are made.
Seqs == 1..MaxPosts
\* The thread that owns the tree and calls Root::run is the first producer.
MainThread == 1
\* The thread a Branch starts: Branch::m_worker of Branch b.
WorkerOf(b) == NumProducers + b
\* Durations a Timer is given, instants of the clock, and waits in arming order.
Durations == 0..MaxDuration
Waits == 1..MaxStarts
\* No wait is pending in the timer queue.
NoWait == [wait |-> 0, left |-> 0]
\* on_expired has not been invoked yet.
NoFire == [wait |-> 0, thread |-> 0, reactor |-> 0, inside |-> "none"]
\* The wait has not been armed yet.
NoLog == [due |-> 0, from |-> "none", ec |-> "none",
          delivered |-> FALSE, stopped |-> "no", stoppedBy |-> "none"]
\* Kinds of callback a CallbackList is given.
CallbackKinds == {"Empty", "Direct", "Deferred"}

\* No callback has been invoked by the thread yet.
NoCall == [cb |-> "none", outcome |-> "none", seq |-> 0, thread |-> 0]

IsRootKind(k) == k \in {"Root", "Branch"}

VARIABLES
    kind,          \* dynamic type of each object
    storage,       \* "heap" (new), "stack" (automatic), "member" (Branch::m_component)
    m_parent,      \* Component::m_parent
    m_children,    \* Component::m_children
    status,        \* "unborn", "alive", "destructing" (a destructor frame is live), "destroyed"
    contextAlive,  \* Root::m_context is constructed and not yet destroyed
    wrapped,       \* Branch::m_component (NULL for the other kinds)
    scope,         \* automatic objects of the running scope, in construction order
    stack,         \* call stack of destructor frames of the tearing-down thread
    dtorCount,     \* times a destructor was entered on the object (2: twice or more)
    deleteCount,   \* times a parent's child loop applied delete to the object (2: twice or more)
    remaining,     \* children found when ~Component's body began
    delOrder,      \* children ~Component's loop has deleted so far, in order
    log,           \* objects in the order their destructors completed
    ub,            \* undefined behaviour has been executed
    aborted,       \* the undefined behaviour ended the process
    queue,         \* per Root: handlers posted to m_context and not yet run, oldest first
    stopped,       \* per Root: m_context.stop() has been called
    loop,          \* per Root: "idle", "running" (a thread is inside m_context.run()), "returned"
    running,       \* per Root: handlers being executed right now
    lastRun,       \* per Root: the handler begun last, with what it observed
    local,         \* per producer thread: the caller's own variable passed as argument
    issued,        \* per producer thread: number of deferred calls made so far
    lastN,         \* per Root and producer: issue number of that producer's handler begun last
    m_worker,      \* per Branch: "none" (not joinable), "started", "finished" (run_worker returned), "joined"
    spawned,       \* per Branch: threads Branch::run has started (2: two or more)
    execCount,     \* per call number: times the bound callable was executed (2: twice or more)
    discarded,     \* call numbers whose handler was destroyed with its event loop, never run
    backlog,       \* per Branch: handlers queued before the worker entered run() that have not returned yet
    lastCall,      \* per producer thread: the callback invoked last and how the invocation ended
    m_duration,    \* Timer::m_duration
    m_timer,       \* Timer::m_timer: the wait pending in the timer queue (NoWait if none)
    armed,         \* number of waits armed so far (waits are numbered as armed)
    fired,         \* per wait: times on_expired was invoked for it (2: twice or more)
    waitLog,       \* per wait: when and how it was armed, and what was done to it since
    lastFire,      \* the on_expired invocation made last
    m_callbacks,   \* CallbackList::m_callbacks: the kinds of the callbacks listed
    listLog,       \* member invocations made by the last CallbackList invocation, in order
    listOutcome,   \* how the last CallbackList invocation ended
    schema,        \* the database: whether the schema version table exists, and the version in its row
    applied,       \* versions whose upgrade was applied to the database and not downgraded since
    lastMig,       \* the MigrationManager call made last: arguments, versions invoked, result
    manager_pool,  \* MigrationManager::m_pool is set
    m_initialized, \* Client::m_initialized
    m_backend,     \* Client::m_backend
    m_pool,        \* Client::m_pool holds a connection pool
    lastConnect,   \* the Client call made last and what it returned
    m_view,        \* Parser::m_view: the number of bytes viewed
    lastExtract,   \* the Parser extraction made last: arguments, outcome, positions read
    lists,         \* the CallbackList objects and their copies: state, m_callbacks, what m_callable is bound to
    lastListCall   \* the invocation of a CallbackList object made last and what it dispatched to

treeVars == <<kind, storage, m_parent, m_children, status, contextAlive, wrapped,
              scope, stack, dtorCount, deleteCount, remaining, delOrder, log, ub, aborted>>

postVars == <<queue, stopped, loop, running, lastRun, local, issued, lastN,
              m_worker, spawned, execCount, discarded, lastCall, backlog>>

timerVars == <<m_duration, m_timer, armed, fired, waitLog, lastFire>>

listVars == <<m_callbacks, listLog, listOutcome>>

migVars == <<schema, applied, lastMig, manager_pool>>

clientVars == <<m_initialized, m_backend, m_pool, lastConnect>>

parserVars == <<m_view, lastExtract>>

copyVars == <<lists, lastListCall>>

auxVars == <<migVars, clientVars, parserVars, copyVars>>

vars == <<treeVars, postVars, timerVars, listVars, auxVars>>

\* ---------------------------------------------------------------- helpers
Back(children) == children[Len(children)]

Count(s, x) == Cardinality({i \in 1..Len(s) : s[i] = x})

Sat2(n) == IF n >= 2 THEN 2 ELSE n

\* ------------------------------------------------ Component (part_016)
\* A constructor that does not register the child.
add_child_forgets(children, component) == children

\* Component::add_child: m_children.emplace_back(component)
add_child(children, component) == Append(children, component)

\* A removal that leaves the list as it is.
remove_child_keeps(children, component) == children

\* A removal that drops the oldest entry, whichever component asks.
remove_child_front(children, component) ==
    IF children = <<>> THEN children ELSE Tail(children)

\* Component::remove_child: std::erase(m_children, component)
remove_child(children, component) == SelectSeq(children, LAMBDA x : x # component)

\* A loop that deletes from the front of the list.
NextToDelete_front(children) == Head(children)

\* The child ~Component's loop deletes next: m_children.back()
NextToDelete(children) == Back(children)

\* A Root that hands out its own event loop only when it has no parent.
RECURSIVE context_delegates(_)
context_delegates(c) ==
    IF c = NULL THEN NoContext
    ELSE IF IsRootKind(kind[c]) /\ m_parent[c] = NULL THEN c
    ELSE context_delegates(m_parent[c])

\* Component::context delegates to the parent; Root::context returns m_context.
\* The value is the Root (or Branch) owning the event loop.
RECURSIVE context(_)
context(c) ==
    IF c = NULL THEN NoContext
    ELSE IF IsRootKind(kind[c]) THEN c
    ELSE context(m_parent[c])

\* Where the destructor of an object of dynamic type k starts.
FirstPc(k) ==
    CASE k = "Branch" -> "branch"
      [] k = "Root"   -> "root"
      [] OTHER        -> "children"

Top == stack[Len(stack)]
Pop(s) == SubSeq(s, 1, Len(s) - 1)

\* The first object not yet constructed (objects are numbered as constructed).
Unborn == {c \in Comp : status[c] = "unborn"}
NextId == CHOOSE c \in Unborn : \A d \in Unborn : c <= d

\* A destructor call on object c, pushed over the frames `base`.  A destructor
\* run on an object that is already destroyed is undefined behaviour: the
\* process either dies or goes on as if nothing had been done.
Enter(c, viaDelete, base) ==
    /\ dtorCount' = [dtorCount EXCEPT ![c] = Sat2(@ + 1)]
    /\ IF status[c] = "destroyed"
       THEN /\ ub' = TRUE
            /\ aborted' \in BOOLEAN
            /\ stack' = base
            /\ UNCHANGED <<status, remaining>>
       ELSE /\ status' = [status EXCEPT ![c] = "destructing"]
            /\ stack' = Append(base, [obj |-> c, pc |-> FirstPc(kind[c]), byDelete |-> viaDelete])
            /\ remaining' = [remaining EXCEPT ![c] =
                                IF kind[c] = "Component" THEN m_children[c] ELSE @]
            /\ UNCHANGED <<ub, aborted>>

\* Nothing posted, no event loop run, every caller's variable at its first value.
PostInit ==
    /\ queue = [c \in Comp |-> <<>>]
    /\ stopped = [c \in Comp |-> FALSE]
    /\ loop = [c \in Comp |-> "idle"]
    /\ running = [c \in Comp |-> {}]
    /\ lastRun = [c \in Comp |-> NoRun]
    /\ local = [t \in Producers |-> "v1"]
    /\ issued = [t \in Producers |-> 0]
    /\ lastN = [c \in Comp |-> [t \in Producers |-> 0]]
    /\ m_worker = [c \in Comp |-> "none"]
    /\ spawned = [c \in Comp |-> 0]
    /\ execCount = [s \in Seqs |-> 0]
    /\ discarded = {}
    /\ lastCall = [t \in Producers |-> NoCall]
    /\ backlog = [c \in Comp |-> 0]

\* A Timer of duration d that was never started.
TimerInit(d) ==
    /\ m_duration = d
    /\ m_timer = NoWait
    /\ armed = 0
    /\ fired = [w \in Waits |-> 0]
    /\ waitLog = [w \in Waits |-> NoLog]
    /\ lastFire = NoFire

\* Identifiers of the registered versions: positions in m_versions.
Versions == 0..(NumVersions - 1)
\* retrieve_installed_version's value when the table has no row.
NoVersion == -1
\* No MigrationManager call has been made yet.
NoMig == [op |-> "none", id |-> 0, before |-> [table |-> FALSE, row |-> NoVersion],
          pool |-> FALSE, fault |-> "none", at |-> 0, invoked |-> <<>>, result |-> FALSE]
\* No Client call has been made yet.
NoConnect == [op |-> "none", how |-> "none", result |-> FALSE, was |-> FALSE]
\* No Parser extraction has been made yet.
NoExtract == [offset |-> 0, count |-> 0, outcome |-> "none", read |-> {}]

\* A database without schema version table and a MigrationManager without pool.
MigInit ==
    /\ schema = [table |-> FALSE, row |-> NoVersion]
    /\ applied = {}
    /\ lastMig = NoMig
    /\ manager_pool = FALSE

\* Client::Client(pool_size): m_initialized{}, m_backend{}, m_pool{}.
ClientInit ==
    /\ m_initialized = FALSE
    /\ m_backend = "None"
    /\ m_pool = FALSE
    /\ lastConnect = NoConnect

\* Parser::Parser(view) over a view of n bytes.
ParserInit(n) ==
    /\ m_view = n
    /\ lastExtract = NoExtract

\* The CallbackList objects: the one constructed from callbacks and its copies.
ListObjs == 1..(MaxCopies + 1)

NoList == [state |-> "none", members |-> <<>>, bound |-> 0, sliced |-> FALSE]

NoListCall == [obj |-> 0, via |-> 0, valid |-> TRUE, sliced |-> FALSE,
               own |-> <<>>, dispatched |-> <<>>]

\* CallbackList::CallbackList(callbacks) for object 1: m_callbacks{callbacks},
\* and set_callable(std::bind_front(&CallbackList::invoke_callbacks, this)).
CopyInit(cbs) ==
    /\ lists = [o \in ListObjs |->
                IF o = 1 THEN [state |-> "alive", members |-> cbs, bound |-> 1, sliced |-> FALSE]
                ELSE NoList]
    /\ lastListCall = NoListCall

AuxInit == MigInit /\ ClientInit /\ ParserInit(0) /\ CopyInit(<<>>)

\* A CallbackList constructed from the callbacks cbs and not invoked yet.
ListInit(cbs) ==
    /\ m_callbacks = cbs
    /\ listLog = <<>>
    /\ listOutcome = "none"

Init ==
    /\ kind = [c \in Comp |-> "none"]
    /\ storage = [c \in Comp |-> "none"]
    /\ m_parent = [c \in Comp |-> NULL]
    /\ m_children = [c \in Comp |-> <<>>]
    /\ status = [c \in Comp |-> "unborn"]
    /\ contextAlive = [c \in Comp |-> FALSE]
    /\ wrapped = [c \in Comp |-> NULL]
    /\ scope = <<>>
    /\ stack = <<>>
    /\ dtorCount = [c \in Comp |-> 0]
    /\ deleteCount = [c \in Comp |-> 0]
    /\ remaining = [c \in Comp |-> <<>>]
    /\ delOrder = [c \in Comp |-> <<>>]
    /\ log = <<>>
    /\ ub = FALSE
    /\ aborted = FALSE
    /\ PostInit
    /\ TimerInit(0)
    /\ ListInit(<<>>)
    /\ AuxInit

\* The thread owning the tree is not inside a destructor and the process lives.
Idle == stack = <<>> /\ ~aborted

\* The thread owning the tree is inside a destructor.
InDtor == stack # <<>> /\ ~aborted

\* The thread that owns the tree is blocked inside Root::run.
MainInRun == \E r \in Comp : kind[r] = "Root" /\ loop[r] = "running"

\* A stop request that flips the mark instead of setting it.
stop_toggles(flag, l) == ~flag

\* A stop request that is lost unless a thread is inside run().
stop_lostWhenIdle(flag, l) == flag \/ l = "running"

\* Root::stop: m_context.stop() marks the event loop stopped, whatever the
\* mark was and whether or not a thread is inside run(); the mark stays.
stop(flag, l) == TRUE

\* A thread that counts as joinable only until its function returns.
joinable_untilFinished(w) == w = "started"

\* std::thread::joinable: a thread was started and has not been joined.
joinable(w) == w \in {"started", "finished"}

\* A join that does not wait for the thread.
join_returns_nowait(w) == TRUE

\* std::thread::join returns once the thread function (run_worker) has returned.
join_returns(w) == w = "finished"

\* Call numbers of the handlers in a queue.
SeqsOf(q) == {q[i].seq : i \in 1..Len(q)}

\* An event loop whose destructor calls the handlers still queued.
CalledAtDestroy_all(q) == SeqsOf(q)

\* The handlers ~io_context calls among those still queued: none, they are
\* destroyed without being invoked.
CalledAtDestroy(q) == {}

\* The parent handed to a constructor: nullptr, or an object that is alive.
ParentOk(p) == IF p = NULL THEN TRUE ELSE status[p] = "alive"

\* Component::Component(parent) for a plain Component, or Root::Root(parent):
\* the object registers with its parent when the parent is not null.
Construct(k, p, st) ==
    /\ UNCHANGED <<postVars, timerVars, listVars, auxVars>>
    /\ Idle
    /\ Unborn # {}
    /\ k \in {"Component", "Root"}
    /\ ParentOk(p)
    /\ LET c == NextId IN
       /\ kind' = [kind EXCEPT ![c] = k]
       /\ storage' = [storage EXCEPT ![c] = st]
       /\ m_parent' = [m_parent EXCEPT ![c] = p]
       /\ m_children' = IF p # NULL
                        THEN [m_children EXCEPT ![p] = add_child(@, c)]
                        ELSE m_children
       /\ status' = [status EXCEPT ![c] = "alive"]
       /\ contextAlive' = [contextAlive EXCEPT ![c] = IsRootKind(k)]
       /\ scope' = IF st = "stack" THEN Append(scope, c) ELSE scope
    /\ UNCHANGED <<wrapped, stack, dtorCount, deleteCount, remaining, delOrder, log, ub, aborted>>

\* Branch::Branch(parent, args...): Root{parent}, then m_component{this, args...},
\* which registers the wrapped component as the first child of the Branch.
ConstructBranch(p, st) ==
    /\ UNCHANGED <<postVars, timerVars, listVars, auxVars>>
    /\ Idle
    /\ Cardinality(Unborn) >= 2
    /\ ParentOk(p)
    /\ LET c == NextId
           w == NextId + 1
       IN
       /\ kind' = [kind EXCEPT ![c] = "Branch", ![w] = "Component"]
       /\ storage' = [storage EXCEPT ![c] = st, ![w] = "member"]
       /\ m_parent' = [m_parent EXCEPT ![c] = p, ![w] = c]
       /\ m_children' = IF p # NULL
                        THEN [m_children EXCEPT ![p] = add_child(@, c), ![c] = add_child(@, w)]
                        ELSE [m_children EXCEPT ![c] = add_child(@, w)]
       /\ status' = [status EXCEPT ![c] = "alive", ![w] = "alive"]
       /\ contextAlive' = [contextAlive EXCEPT ![c] = TRUE]
       /\ wrapped' = [wrapped EXCEPT ![c] = w]
       /\ scope' = IF st = "stack" THEN Append(scope, c) ELSE scope
    /\ UNCHANGED <<stack, dtorCount, deleteCount, remaining, delOrder, log, ub, aborted>>

\* `delete c` written by the user on a live heap object.
DeleteHeap(c) ==
    /\ UNCHANGED <<postVars, timerVars, listVars, auxVars>>
    /\ Idle
    /\ ~MainInRun
    /\ status[c] = "alive"
    /\ storage[c] = "heap"
    /\ Enter(c, TRUE, <<>>)
    /\ UNCHANGED <<kind, storage, m_parent, m_children, contextAlive, wrapped, scope,
                   deleteCount, delOrder, log>>

\* The running scope ends for its most recently constructed automatic object.
Unwind ==
    /\ UNCHANGED <<postVars, timerVars, listVars, auxVars>>
    /\ Idle
    /\ ~MainInRun
    /\ scope # <<>>
    /\ scope' = Pop(scope)
    /\ Enter(Back(scope), FALSE, <<>>)
    /\ UNCHANGED <<kind, storage, m_parent, m_children, contextAlive, wrapped,
                   deleteCount, delOrder, log>>

\* ~Branch's body, before any member goes: if (m_worker.joinable()) stop();
\* and then m_worker.join() is entered.
BranchBody ==
    /\ InDtor
    /\ Top.pc = "branch"
    /\ IF joinable(m_worker[Top.obj])
       THEN /\ stopped' = [stopped EXCEPT ![Top.obj] = stop(@, loop[Top.obj])]
            /\ stack' = [stack EXCEPT ![Len(stack)].pc = "join"]
       ELSE /\ stopped' = stopped
            /\ stack' = [stack EXCEPT ![Len(stack)].pc = "member"]
    /\ UNCHANGED <<queue, loop, running, lastRun, local, issued, lastN,
                   m_worker, spawned, execCount, discarded, lastCall, backlog>>
    /\ UNCHANGED <<kind, storage, m_parent, m_children, status, contextAlive, wrapped,
                   scope, dtorCount, deleteCount, remaining, delOrder, log, ub, aborted>>
    /\ UNCHANGED <<timerVars, listVars, auxVars>>

\* ~Branch's body: m_worker.join() returns, the worker thread has ended.
BranchJoin ==
    /\ InDtor
    /\ Top.pc = "join"
    /\ join_returns(m_worker[Top.obj])
    /\ m_worker' = [m_worker EXCEPT ![Top.obj] = "joined"]
    /\ stack' = [stack EXCEPT ![Len(stack)].pc = "member"]
    /\ UNCHANGED <<queue, stopped, loop, running, lastRun, local, issued, lastN,
                   spawned, execCount, discarded, lastCall, backlog>>
    /\ UNCHANGED <<kind, storage, m_parent, m_children, status, contextAlive, wrapped,
                   scope, dtorCount, deleteCount, remaining, delOrder, log, ub, aborted>>
    /\ UNCHANGED <<timerVars, listVars, auxVars>>

\* Branch's members are destroyed: m_component's destructor runs in full.
BranchMember ==
    /\ UNCHANGED <<postVars, timerVars, listVars, auxVars>>
    /\ InDtor
    /\ Top.pc = "member"
    /\ Enter(wrapped[Top.obj], FALSE, [stack EXCEPT ![Len(stack)].pc = "root"])
    /\ UNCHANGED <<kind, storage, m_parent, m_children, contextAlive, wrapped, scope,
                   deleteCount, delOrder, log>>

\* ~Root is defaulted: Root's member m_context is destroyed, and with it the
\* handlers still queued, which are never called; then ~Component's body begins.
RootMembers ==
    /\ InDtor
    /\ Top.pc = "root"
    /\ queue' = [queue EXCEPT ![Top.obj] = <<>>]
    /\ discarded' = discarded \cup SeqsOf(queue[Top.obj])
    /\ execCount' = [s \in Seqs |-> IF s \in CalledAtDestroy(queue[Top.obj])
                                    THEN Sat2(execCount[s] + 1) ELSE execCount[s]]
    /\ UNCHANGED <<stopped, loop, running, lastRun, local, issued, lastN,
                   m_worker, spawned, lastCall, backlog>>
    /\ contextAlive' = [contextAlive EXCEPT ![Top.obj] = FALSE]
    /\ remaining' = [remaining EXCEPT ![Top.obj] = m_children[Top.obj]]
    /\ stack' = [stack EXCEPT ![Len(stack)].pc = "children"]
    /\ UNCHANGED <<kind, storage, m_parent, m_children, status, wrapped, scope,
                   dtorCount, deleteCount, delOrder, log, ub, aborted>>
    /\ UNCHANGED <<timerVars, listVars, auxVars>>

\* ~Component: while (!m_children.empty()) delete m_children.back();
DeleteChild ==
    /\ UNCHANGED <<postVars, timerVars, listVars, auxVars>>
    /\ InDtor
    /\ Top.pc = "children"
    /\ m_children[Top.obj] # <<>>
    /\ LET ch == NextToDelete(m_children[Top.obj]) IN
       /\ deleteCount' = [deleteCount EXCEPT ![ch] = Sat2(@ + 1)]
       /\ delOrder' = [delOrder EXCEPT ![Top.obj] = Append(@, ch)]
       /\ Enter(ch, TRUE, stack)
    /\ UNCHANGED <<kind, storage, m_parent, m_children, contextAlive, wrapped, scope, log>>

\* ~Component after the loop: if (m_parent) m_parent->remove_child(this); the
\* destructor returns, and a delete expression then frees the object.  Touching
\* a destroyed parent, or freeing an object that was not allocated with new, is
\* undefined behaviour.
DtorEnd ==
    /\ UNCHANGED <<postVars, timerVars, listVars, auxVars>>
    /\ InDtor
    /\ Top.pc = "children"
    /\ m_children[Top.obj] = <<>>
    /\ LET c == Top.obj
           p == m_parent[c]
           danglingParent == p # NULL /\ status[p] = "destroyed"
           badFree == Top.byDelete /\ storage[c] # "heap"
       IN
       /\ m_children' = IF p # NULL /\ ~danglingParent
                        THEN [m_children EXCEPT ![p] = remove_child(@, c)]
                        ELSE m_children
       /\ status' = [status EXCEPT ![c] = "destroyed"]
       /\ log' = Append(log, c)
       /\ stack' = Pop(stack)
       /\ IF danglingParent \/ badFree
          THEN ub' = TRUE /\ aborted' \in BOOLEAN
          ELSE UNCHANGED <<ub, aborted>>
    /\ UNCHANGED <<kind, storage, m_parent, contextAlive, wrapped, scope,
                   dtorCount, deleteCount, remaining, delOrder>>

Next ==
    \/ \E k \in {"Component", "Root"}, p \in Comp \cup {NULL}, st \in {"heap", "stack"} :
          Construct(k, p, st)
    \/ \E p \in Comp \cup {NULL}, st \in {"heap", "stack"} : ConstructBranch(p, st)
    \/ \E c \in Comp : DeleteHeap(c)
    \/ Unwind
    \/ BranchBody
    \/ BranchMember
    \/ RootMembers
    \/ DeleteChild
    \/ DtorEnd

Spec == Init /\ [][Next]_vars

\* ------------------------------------------------ posting to the event loop
\* An argument as the caller hands it over: a reference to the caller's variable.
ArgOf(t) == [byRef |-> TRUE, ref |-> t, val |-> local[t]]

\* What a stored argument yields when it is read.
Deref(a) == IF a.byRef THEN local[a.ref] ELSE a.val

\* A handler that keeps the caller's reference instead of a copy.
CopyArgs_keepsRef(a) == a

\* Component::post takes `TArgs... args` by value and the handler captures
\* `args...` by copy: the handler owns a copy made during the call.
CopyArgs(a) == [byRef |-> FALSE, ref |-> a.ref, val |-> Deref(a)]

\* A queue that serves the newest handler first.
Enqueue_front(q, handler) == <<handler>> \o q

\* A post that queues the handler twice.
Enqueue_twice(q, handler) == Append(Append(q, handler), handler)

\* boost::asio::post(context().get_executor(), handler): the handler goes to the
\* back of the queue of the event loop context() resolves to.
Enqueue(q, handler) == Append(q, handler)

RECURSIVE Sum(_, _)
Sum(f, S) == IF S = {} THEN 0 ELSE LET x == CHOOSE y \in S : TRUE IN f[x] + Sum(f, S \ {x})

\* Calls made so far by all threads.
Issued == Sum(issued, Producers)

\* Component::post(method, args...) called on component c by thread t.  The
\* handler is tagged with its caller, the caller's issue number, the value the
\* argument had during the call and the number of the call among all calls.
post(c, t, a) ==
    [queue EXCEPT ![context(c)] =
        Enqueue(@, [by |-> t, n |-> issued[t] + 1, args |-> CopyArgs(a), sent |-> Deref(a),
                    seq |-> Issued + 1])]

\* The component can be posted to: it is alive and its event loop exists.
Postable(c) ==
    /\ status[c] = "alive"
    /\ context(c) # NoContext
    /\ contextAlive[context(c)]

\* A thread calls c.post(&T::method, x) with its variable x.
Post(t, c) ==
    /\ Idle
    /\ Issued < MaxPosts
    /\ Postable(c)
    /\ queue' = post(c, t, ArgOf(t))
    /\ issued' = [issued EXCEPT ![t] = @ + 1]
    /\ UNCHANGED <<stopped, loop, running, lastRun, local, lastN,
                   m_worker, spawned, execCount, discarded, lastCall, backlog>>
    /\ UNCHANGED <<treeVars, timerVars, listVars, auxVars>>

\* A thread invokes a DeferredCallback bound to component c with its variable x:
\* the stored callable [object, method](TArgs... args) calls
\* object->post(method, args...).
InvokeDeferred(t, c) ==
    /\ Idle
    /\ Issued < MaxPosts
    /\ Postable(c)
    /\ queue' = post(c, t, ArgOf(t))
    /\ issued' = [issued EXCEPT ![t] = @ + 1]
    /\ UNCHANGED <<stopped, loop, running, lastRun, local, lastN,
                   m_worker, spawned, execCount, discarded, lastCall, backlog>>
    /\ UNCHANGED <<treeVars, timerVars, listVars, auxVars>>

\* A placeholder whose callable is bound like a direct callback's.
m_callable_emptyBound(cb) == IF cb = "Deferred" THEN "post" ELSE "bound"

\* A direct callback whose callable posts like a deferred callback's.
m_callable_directPosts(cb) == IF cb = "Empty" THEN "empty" ELSE "post"

\* BaseCallback::m_callable as each constructor leaves it: a default-constructed
\* callback holds an empty std::function, DirectCallback stores
\* std::bind_front(method, object), DeferredCallback a lambda that posts.
m_callable(cb) ==
    CASE cb = "Empty"  -> "empty"
      [] cb = "Direct" -> "bound"
      [] OTHER         -> "post"

\* BaseCallback::operator(): m_callable(args...), called by thread t on a
\* callback of kind cb bound to component c.  An empty std::function throws
\* std::bad_function_call; a bound method runs inside the call; a posting
\* lambda queues a handler.
Invoke(t, cb, c) ==
    LET f == m_callable(cb)
        s == Issued + 1
    IN
    IF f = "empty"
    THEN /\ lastCall' = [lastCall EXCEPT ![t] =
                            [cb |-> cb, outcome |-> "bad_function_call", seq |-> 0, thread |-> 0]]
         /\ UNCHANGED <<queue, issued, execCount>>
    ELSE IF f = "bound"
    THEN /\ execCount' = [execCount EXCEPT ![s] = Sat2(@ + 1)]
         /\ issued' = [issued EXCEPT ![t] = @ + 1]
         /\ lastCall' = [lastCall EXCEPT ![t] =
                            [cb |-> cb, outcome |-> "returned", seq |-> s, thread |-> t]]
         /\ UNCHANGED queue
    ELSE /\ queue' = post(c, t, ArgOf(t))
         /\ issued' = [issued EXCEPT ![t] = @ + 1]
         /\ lastCall' = [lastCall EXCEPT ![t] =
                            [cb |-> cb, outcome |-> "returned", seq |-> s, thread |-> 0]]
         /\ UNCHANGED execCount

\* A thread invokes a default-constructed callback.
InvokeEmpty(t) ==
    /\ Idle
    /\ Issued < MaxPosts
    /\ Invoke(t, "Empty", NULL)
    /\ UNCHANGED <<stopped, loop, running, lastRun, local, lastN, m_worker, spawned, discarded, backlog>>
    /\ UNCHANGED <<treeVars, timerVars, listVars, auxVars>>

\* A thread invokes a DirectCallback bound to a method of component c.
InvokeDirect(t, c) ==
    /\ Idle
    /\ Issued < MaxPosts
    /\ Postable(c)
    /\ Invoke(t, "Direct", c)
    /\ UNCHANGED <<stopped, loop, running, lastRun, local, lastN, m_worker, spawned, discarded, backlog>>
    /\ UNCHANGED <<treeVars, timerVars, listVars, auxVars>>

\* The caller changes (or clears) its own variable.
Mutate(t) ==
    /\ Idle
    /\ \E v \in Values \ {local[t]} : local' = [local EXCEPT ![t] = v]
    /\ UNCHANGED <<queue, stopped, loop, running, lastRun, issued, lastN,
                   m_worker, spawned, execCount, discarded, lastCall, backlog>>
    /\ UNCHANGED <<treeVars, timerVars, listVars, auxVars>>

\* Root::run called by the thread that owns the tree: a work guard is taken and
\* m_context.run() entered.
Run(r) ==
    /\ Idle
    /\ kind[r] = "Root" /\ status[r] = "alive"
    /\ loop[r] # "running"
    /\ loop' = [loop EXCEPT ![r] = "running"]
    /\ UNCHANGED <<queue, stopped, running, lastRun, local, issued, lastN,
                   m_worker, spawned, execCount, discarded, lastCall, backlog>>
    /\ UNCHANGED <<treeVars, timerVars, listVars, auxVars>>

\* Branch::run: if (!m_worker.joinable()) m_worker = std::thread{run_worker}.
BranchRun(b) ==
    /\ Idle
    /\ kind[b] = "Branch" /\ status[b] = "alive"
    /\ IF ~joinable(m_worker[b])
       THEN /\ m_worker' = [m_worker EXCEPT ![b] = "started"]
            /\ spawned' = [spawned EXCEPT ![b] = Sat2(@ + 1)]
       ELSE UNCHANGED <<m_worker, spawned>>
    /\ UNCHANGED <<queue, stopped, loop, running, lastRun, local, issued, lastN,
                   execCount, discarded, lastCall, backlog>>
    /\ UNCHANGED <<treeVars, timerVars, listVars, auxVars>>

\* Branch::run_worker on the new thread: a work guard is taken and
\* context().run() entered.
WorkerEnter(b) ==
    /\ m_worker[b] = "started"
    /\ loop[b] = "idle"
    /\ loop' = [loop EXCEPT ![b] = "running"]
    /\ backlog' = [backlog EXCEPT ![b] = Len(queue[b])]
    /\ UNCHANGED <<queue, stopped, running, lastRun, local, issued, lastN,
                   m_worker, spawned, execCount, discarded, lastCall>>
    /\ UNCHANGED <<treeVars, timerVars, listVars, auxVars>>

\* A loop that calls the oldest handler and leaves it queued.
Dequeue_keeps(q) == q

\* m_context.run() removes the handler it is about to call from the queue.
Dequeue(q) == Tail(q)

\* Root::stop, from any thread or from a handler: m_context.stop().
Stop(r) ==
    /\ Idle
    /\ IsRootKind(kind[r]) /\ status[r] = "alive"
    /\ stopped' = [stopped EXCEPT ![r] = stop(@, loop[r])]
    /\ UNCHANGED <<queue, loop, running, lastRun, local, issued, lastN,
                   m_worker, spawned, execCount, discarded, lastCall, backlog>>
    /\ UNCHANGED <<treeVars, timerVars, listVars, auxVars>>

\* The thread inside m_context.run() of r: the worker of a Branch, the caller of
\* Root::run otherwise.
LoopThread(r) == IF kind[r] = "Branch" THEN WorkerOf(r) ELSE MainThread

\* m_context.run() takes the oldest handler and calls it:
\* (static_cast<TClass*>(this)->*method)(std::move(args)...).
TaskBegin(r) ==
    /\ loop[r] = "running"
    /\ ~stopped[r]
    /\ running[r] = {}
    /\ queue[r] # <<>>
    /\ Head(queue[r]).by \in Producers
    /\ LET h == Head(queue[r]) IN
       /\ queue' = [queue EXCEPT ![r] = Dequeue(@)]
       /\ running' = [running EXCEPT ![r] = {h}]
       /\ lastRun' = [lastRun EXCEPT ![r] =
                        [by |-> h.by, n |-> h.n, prev |-> lastN[r][h.by],
                         sent |-> h.sent, observed |-> Deref(h.args),
                         callerNow |-> local[h.by],
                         seq |-> h.seq, thread |-> LoopThread(r)]]
       /\ lastN' = [lastN EXCEPT ![r][h.by] = h.n]
       /\ execCount' = [execCount EXCEPT ![h.seq] = Sat2(@ + 1)]
    /\ UNCHANGED <<stopped, loop, local, issued, m_worker, spawned, discarded, lastCall, backlog>>
    /\ UNCHANGED <<treeVars, timerVars, listVars, auxVars>>

\* The handler returns to m_context.run().
TaskEnd(r) ==
    /\ running[r] # {}
    /\ running' = [running EXCEPT ![r] = {}]
    /\ backlog' = [backlog EXCEPT ![r] = IF @ > 0 THEN @ - 1 ELSE @]
    /\ UNCHANGED <<queue, stopped, loop, lastRun, local, issued, lastN,
                   m_worker, spawned, execCount, discarded, lastCall>>
    /\ UNCHANGED <<treeVars, timerVars, listVars, auxVars>>

\* An event loop run without a work guard.
HasWorkGuard_none(r) == FALSE

\* Root::run and Branch::run_worker hold boost::asio::make_work_guard over the
\* call of run().
HasWorkGuard(r) == IsRootKind(kind[r])

\* m_context.run() returns once the context is stopped (or, without a work
\* guard, out of work); for a Branch, run_worker returns and the thread ends.
Return(r) ==
    /\ loop[r] = "running"
    /\ stopped[r] \/ (queue[r] = <<>> /\ ~HasWorkGuard(r))
    /\ running[r] = {}
    /\ loop' = [loop EXCEPT ![r] = "returned"]
    /\ m_worker' = IF kind[r] = "Branch" THEN [m_worker EXCEPT ![r] = "finished"] ELSE m_worker
    /\ UNCHANGED <<queue, stopped, running, lastRun, local, issued, lastN,
                   spawned, execCount, discarded, lastCall, backlog>>
    /\ UNCHANGED <<treeVars, timerVars, listVars, auxVars>>

\* A Root on the stack of main and a Component under it, the loop not run yet.
RootAndChild(k) ==
    /\ kind = [c \in Comp |-> CASE c = 1 -> "Root" [] c = 2 -> k [] OTHER -> "none"]
    /\ storage = [c \in Comp |-> IF c <= 2 THEN "stack" ELSE "none"]
    /\ m_parent = [c \in Comp |-> IF c = 2 THEN 1 ELSE NULL]
    /\ m_children = [c \in Comp |-> IF c = 1 THEN add_child(<<>>, 2) ELSE <<>>]
    /\ status = [c \in Comp |-> IF c <= 2 THEN "alive" ELSE "unborn"]
    /\ contextAlive = [c \in Comp |-> c = 1]
    /\ wrapped = [c \in Comp |-> NULL]
    /\ scope = <<1, 2>>
    /\ stack = <<>>
    /\ dtorCount = [c \in Comp |-> 0]
    /\ deleteCount = [c \in Comp |-> 0]
    /\ remaining = [c \in Comp |-> <<>>]
    /\ delOrder = [c \in Comp |-> <<>>]
    /\ log = <<>>
    /\ ub = FALSE
    /\ aborted = FALSE

\* The fixture of the tests: a Root and a Component built on it.
InitPost ==
    /\ RootAndChild("Component")
    /\ PostInit
    /\ TimerInit(0)
    /\ ListInit(<<>>)
    /\ AuxInit

NextPost ==
    \/ \E t \in Producers, c \in Comp : Post(t, c)
    \/ \E t \in Producers, c \in Comp : InvokeDeferred(t, c)
    \/ \E t \in Producers : Mutate(t)
    \/ \E r \in Comp : Run(r)
    \/ \E r \in Comp : Stop(r)
    \/ \E r \in Comp : TaskBegin(r)
    \/ \E r \in Comp : TaskEnd(r)
    \/ \E r \in Comp : Return(r)

SpecPost == InitPost /\ [][NextPost]_vars

\* ------------------------------------------------ callbacks
\* The same Root and Component; threads invoke callbacks of every kind bound to
\* them while the loop is run and stopped.
NextCall ==
    \/ \E t \in Producers, c \in Comp : InvokeDeferred(t, c)
    \/ \E t \in Producers, c \in Comp : InvokeDirect(t, c)
    \/ \E t \in Producers : InvokeEmpty(t)
    \/ \E r \in Comp : Run(r)
    \/ \E r \in Comp : Stop(r)
    \/ \E r \in Comp : TaskBegin(r)
    \/ \E r \in Comp : TaskEnd(r)
    \/ \E r \in Comp : Return(r)

SpecCall == InitPost /\ [][NextCall]_vars

\* ------------------------------------------------ life of the event loops
\* RootMock root{}; Branch<DummyComponent> worker{&root, ...}; on the stack of
\* main: object 1 is the Root, 2 the Branch, 3 the component the Branch wraps.
\* The main thread makes the deferred calls, starts and stops the loops and
\* leaves the scope; the worker thread of the Branch runs beside it.
InitLife ==
    /\ kind = [c \in Comp |-> CASE c = 1 -> "Root" [] c = 2 -> "Branch"
                                [] c = 3 -> "Component" [] OTHER -> "none"]
    /\ storage = [c \in Comp |-> CASE c <= 2 -> "stack" [] c = 3 -> "member" [] OTHER -> "none"]
    /\ m_parent = [c \in Comp |-> CASE c = 2 -> 1 [] c = 3 -> 2 [] OTHER -> NULL]
    /\ m_children = [c \in Comp |-> CASE c = 1 -> add_child(<<>>, 2)
                                      [] c = 2 -> add_child(<<>>, 3)
                                      [] OTHER -> <<>>]
    /\ status = [c \in Comp |-> IF c <= 3 THEN "alive" ELSE "unborn"]
    /\ contextAlive = [c \in Comp |-> c \in {1, 2}]
    /\ wrapped = [c \in Comp |-> IF c = 2 THEN 3 ELSE NULL]
    /\ scope = <<1, 2>>
    /\ stack = <<>>
    /\ dtorCount = [c \in Comp |-> 0]
    /\ deleteCount = [c \in Comp |-> 0]
    /\ remaining = [c \in Comp |-> <<>>]
    /\ delOrder = [c \in Comp |-> <<>>]
    /\ log = <<>>
    /\ ub = FALSE
    /\ aborted = FALSE
    /\ PostInit
    /\ TimerInit(0)
    /\ ListInit(<<>>)
    /\ AuxInit

NextLife ==
    \/ \E c \in Comp : Post(MainThread, c)
    \/ \E c \in Comp : InvokeDeferred(MainThread, c)
    \/ \E r \in Comp : Run(r)
    \/ \E b \in Comp : BranchRun(b)
    \/ \E b \in Comp : WorkerEnter(b)
    \/ \E r \in Comp : Stop(r)
    \/ \E r \in Comp : TaskBegin(r)
    \/ \E r \in Comp : TaskEnd(r)
    \/ \E r \in Comp : Return(r)
    \/ Unwind
    \/ BranchBody
    \/ BranchJoin
    \/ BranchMember
    \/ RootMembers
    \/ DtorEnd

SpecLife == InitLife /\ [][NextLife]_vars

\* Threads keep running: a thread inside run() takes the next handler, a handler
\* that was begun returns, run() returns when it may, a started worker thread
\* reaches run_worker, and a destructor that can take its next step takes it.
FairLife ==
    /\ \A r \in Comp : WF_vars(TaskBegin(r))
    /\ \A r \in Comp : WF_vars(TaskEnd(r))
    /\ \A r \in Comp : WF_vars(Return(r))
    /\ \A b \in Comp : WF_vars(WorkerEnter(b))
    /\ WF_vars(BranchBody)
    /\ WF_vars(BranchJoin)

SpecLifeFair == SpecLife /\ FairLife


\* ------------------------------------------------------------ CallbackList
\* Every list of at most n callbacks.
RECURSIVE ListsUpTo(_)
ListsUpTo(n) ==
    IF n = 0 THEN {<<>>}
    ELSE LET shorter == ListsUpTo(n - 1) IN
         shorter \cup {Append(l, k) : l \in shorter, k \in CallbackKinds}

\* CallbackList::invoke_callbacks from member i on: `for (const auto& cb :
\* m_callbacks) cb(args...)`.  Each member is called with the arguments of the
\* list; a member whose callable is empty throws std::bad_function_call out of
\* the loop, so the members after it are not reached.
RECURSIVE invoke_callbacks(_, _, _)
invoke_callbacks(cbs, i, a) ==
    IF i > Len(cbs) THEN <<>>
    ELSE LET f == m_callable(cbs[i]) IN
         IF f = "empty"
         THEN <<[member |-> i, did |-> "threw", given |-> a, arg |-> a]>>
         ELSE <<[member |-> i, did |-> IF f = "bound" THEN "ran" ELSE "posted",
                 given |-> a, arg |-> a]>>
              \o invoke_callbacks(cbs, i + 1, a)

\* The handlers the members that post have queued, in the order of the calls:
\* entry j of the log is call number j of thread t in this invocation.
RECURSIVE PostAll(_, _, _, _)
PostAll(q, entries, j, t) ==
    IF j > Len(entries) THEN q
    ELSE PostAll(IF entries[j].did = "posted"
                 THEN Enqueue(q, [by |-> t, n |-> issued[t] + j,
                                  args |-> [byRef |-> FALSE, ref |-> t, val |-> entries[j].arg],
                                  sent |-> entries[j].arg, seq |-> Issued + j])
                 ELSE q,
                 entries, j + 1, t)

\* Thread t invokes the CallbackList, whose members are bound to component c,
\* with argument a: BaseCallback::operator() calls invoke_callbacks.
InvokeList(t, c, a) ==
    /\ Idle
    /\ Postable(c)
    /\ Issued + Len(m_callbacks) <= MaxPosts
    /\ LET entries == invoke_callbacks(m_callbacks, 1, a)
           called == {j \in 1..Len(entries) : entries[j].did # "threw"}
       IN
       /\ listLog' = entries
       /\ listOutcome' = IF \E j \in 1..Len(entries) : entries[j].did = "threw"
                         THEN "bad_function_call" ELSE "returned"
       /\ queue' = [queue EXCEPT ![context(c)] = PostAll(@, entries, 1, t)]
       /\ execCount' = [s \in Seqs |->
                          IF \E j \in called : entries[j].did = "ran" /\ s = Issued + j
                          THEN Sat2(execCount[s] + 1) ELSE execCount[s]]
       /\ issued' = [issued EXCEPT ![t] = @ + Cardinality(called)]
    /\ UNCHANGED <<stopped, loop, running, lastRun, local, lastN,
                   m_worker, spawned, discarded, lastCall, backlog>>
    /\ UNCHANGED <<treeVars, timerVars, m_callbacks, auxVars>>

\* A Root, a Component on it, and a CallbackList built from any callbacks.
InitList ==
    /\ RootAndChild("Component")
    /\ PostInit
    /\ TimerInit(0)
    /\ \E cbs \in ListsUpTo(MaxList) : ListInit(cbs)
    /\ AuxInit

NextList ==
    \/ \E c \in Comp, a \in Values : InvokeList(MainThread, c, a)
    \/ \E r \in Comp : Run(r)
    \/ \E r \in Comp : Stop(r)
    \/ \E r \in Comp : TaskBegin(r)
    \/ \E r \in Comp : TaskEnd(r)
    \/ \E r \in Comp : Return(r)

SpecList == InitList /\ [][NextList]_vars

\* -------------------------------------------------------------------- Timer
\* The completion handler of wait w, std::bind_front(&Timer::handle_expiration,
\* this), queued on the event loop with error code ec.
Completion(w, ec) == [by |-> 0, n |-> 0, seq |-> 0, wait |-> w, ec |-> ec]

\* A cancel that completes the pending wait as if it had elapsed.
cancel_asElapsed(mt) == IF mt = NoWait THEN <<>> ELSE <<Completion(mt.wait, "success")>>

\* m_timer.cancel(): the wait still pending in the timer queue, if any, is
\* removed and its handler queued with operation_aborted.  A wait whose
\* handler the event loop has already queued is out of the timer queue and is
\* not touched.
cancel(mt) == IF mt = NoWait THEN <<>> ELSE <<Completion(mt.wait, "operation_aborted")>>

\* Timer::handle_expiration: `if (ec != operation_aborted) m_on_expired(*this)`;
\* TRUE iff on_expired is invoked.
handle_expiration(ec) == ec # "operation_aborted"

\* A set_duration that also moves the expiry of the pending wait.
set_duration_rearms(mt, d) ==
    [m_duration |-> d, m_timer |-> IF mt = NoWait THEN mt ELSE [mt EXCEPT !.left = d]]

\* Timer::set_duration: `m_duration = duration`, nothing else.
set_duration(mt, d) == [m_duration |-> d, m_timer |-> mt]

\* An async_wait that calls the handler inside the call when the wait is due.
async_wait_inlineWhenDue(left) == left = 0

\* m_timer.async_wait(handler): TRUE iff the handler is invoked from within the
\* call; asio never does so, the handler is only ever run by the event loop.
async_wait(left) == FALSE

\* The code calling into the Timer: main() while it is not inside run(), a
\* posted task being executed by the loop, or on_expired being executed.
CanCall(tm, from) ==
    LET r == context(tm) IN
    CASE from = "main" -> Idle /\ ~MainInRun
      [] from = "task" -> \E h \in running[r] : h.by \in Producers
      [] OTHER         -> \E h \in running[r] : h.by = 0 /\ handle_expiration(h.ec)

Callers == {"main", "task", "on_expired"}

\* The thread the caller runs on.
CallerThread(tm, from) == IF from = "main" THEN MainThread ELSE LoopThread(context(tm))

\* The waits a stop() at this instant is aimed at, marked with where they
\* were: not yet elapsed, elapsed and still in the timer queue, or elapsed with
\* the handler already queued on the loop.
Marked(by) ==
    [w \in Waits |->
        IF waitLog[w].from # "none" /\ ~waitLog[w].delivered /\ waitLog[w].stopped = "no"
        THEN [waitLog[w] EXCEPT
                !.stopped = IF m_timer.wait = w
                            THEN (IF m_timer.left > 0 THEN "early" ELSE "elapsed")
                            ELSE "queued",
                !.stoppedBy = by,
                !.ec = IF m_timer.wait = w /\ cancel(m_timer) # <<>>
                       THEN cancel(m_timer)[1].ec ELSE @]
        ELSE waitLog[w]]

\* Timer::start: stop(); m_timer.expires_after(m_duration);
\* m_timer.async_wait(bind_front(&Timer::handle_expiration, this)).  The new
\* wait has m_duration ticks left.
TimerStart(tm, from) ==
    /\ kind[tm] = "Timer" /\ Postable(tm)
    /\ CanCall(tm, from)
    /\ armed < MaxStarts
    /\ LET r == context(tm)
           w == armed + 1
           entry == [due |-> m_duration, from |-> from, ec |-> "none",
                     delivered |-> FALSE, stopped |-> "no", stoppedBy |-> "none"]
       IN
       /\ queue' = [queue EXCEPT ![r] = @ \o cancel(m_timer)]
       /\ armed' = w
       /\ IF async_wait(m_duration)
          THEN /\ m_timer' = NoWait
               /\ waitLog' = [Marked("start") EXCEPT
                                ![w] = [entry EXCEPT !.ec = "success", !.delivered = TRUE]]
               /\ fired' = [fired EXCEPT ![w] = Sat2(@ + 1)]
               /\ lastFire' = [wait |-> w, thread |-> CallerThread(tm, from),
                               reactor |-> r, inside |-> "start"]
          ELSE /\ m_timer' = [wait |-> w, left |-> m_duration]
               /\ waitLog' = [Marked("start") EXCEPT ![w] = entry]
               /\ UNCHANGED <<fired, lastFire>>
    /\ UNCHANGED m_duration
    /\ UNCHANGED <<stopped, loop, running, lastRun, local, issued, lastN,
                   m_worker, spawned, execCount, discarded, lastCall, backlog>>
    /\ UNCHANGED <<treeVars, listVars, auxVars>>

\* Timer::stop: m_timer.cancel().
TimerStop(tm, from) ==
    /\ kind[tm] = "Timer" /\ Postable(tm)
    /\ CanCall(tm, from)
    /\ queue' = [queue EXCEPT ![context(tm)] = @ \o cancel(m_timer)]
    /\ m_timer' = NoWait
    /\ waitLog' = Marked("stop")
    /\ UNCHANGED <<m_duration, armed, fired, lastFire>>
    /\ UNCHANGED <<stopped, loop, running, lastRun, local, issued, lastN,
                   m_worker, spawned, execCount, discarded, lastCall, backlog>>
    /\ UNCHANGED <<treeVars, listVars, auxVars>>

\* Timer::set_duration(d).
TimerSetDuration(tm, from, d) ==
    /\ kind[tm] = "Timer" /\ Postable(tm)
    /\ CanCall(tm, from)
    /\ d # m_duration
    /\ m_duration' = set_duration(m_timer, d).m_duration
    /\ m_timer' = set_duration(m_timer, d).m_timer
    /\ UNCHANGED <<armed, fired, waitLog, lastFire>>
    /\ UNCHANGED postVars
    /\ UNCHANGED <<treeVars, listVars, auxVars>>

\* The steady clock advances by one tick.  The clock is read only to set and
\* to test the expiry of the pending wait, so time is kept as the ticks that
\* wait has left.
Tick ==
    /\ m_timer # NoWait
    /\ m_timer.left > 0
    /\ m_timer' = [m_timer EXCEPT !.left = @ - 1]
    /\ waitLog' = [waitLog EXCEPT ![m_timer.wait].due = IF @ > 0 THEN @ - 1 ELSE @]
    /\ UNCHANGED <<m_duration, armed, fired, lastFire>>
    /\ UNCHANGED postVars
    /\ UNCHANGED <<treeVars, listVars, auxVars>>

\* The thread inside m_context.run(), between two handlers, finds the pending
\* wait due: the wait leaves the timer queue and its handler is queued with
\* success, behind the handlers queued before.
Expire(tm) ==
    LET r == context(tm) IN
    /\ kind[tm] = "Timer" /\ Postable(tm)
    /\ loop[r] = "running"
    /\ ~stopped[r]
    /\ running[r] = {}
    /\ m_timer # NoWait
    /\ m_timer.left = 0
    /\ queue' = [queue EXCEPT ![r] = Enqueue(@, Completion(m_timer.wait, "success"))]
    /\ waitLog' = [waitLog EXCEPT ![m_timer.wait].ec = "success"]
    /\ m_timer' = NoWait
    /\ UNCHANGED <<m_duration, armed, fired, lastFire>>
    /\ UNCHANGED <<stopped, loop, running, lastRun, local, issued, lastN,
                   m_worker, spawned, execCount, discarded, lastCall, backlog>>
    /\ UNCHANGED <<treeVars, listVars, auxVars>>

\* m_context.run() takes the oldest handler, a completion handler of the
\* Timer, and calls it: Timer::handle_expiration(ec).
ExpirationBegin(r) ==
    /\ loop[r] = "running"
    /\ ~stopped[r]
    /\ running[r] = {}
    /\ queue[r] # <<>>
    /\ Head(queue[r]).by = 0
    /\ LET h == Head(queue[r]) IN
       /\ queue' = [queue EXCEPT ![r] = Dequeue(@)]
       /\ running' = [running EXCEPT ![r] = {h}]
       /\ waitLog' = [waitLog EXCEPT ![h.wait].delivered = TRUE]
       /\ IF handle_expiration(h.ec)
          THEN /\ fired' = [fired EXCEPT ![h.wait] = Sat2(@ + 1)]
               /\ lastFire' = [wait |-> h.wait, thread |-> LoopThread(r),
                               reactor |-> r, inside |-> "handler"]
          ELSE UNCHANGED <<fired, lastFire>>
    /\ UNCHANGED <<m_duration, m_timer, armed>>
    /\ UNCHANGED <<stopped, loop, lastRun, local, issued, lastN,
                   m_worker, spawned, execCount, discarded, lastCall, backlog>>
    /\ UNCHANGED <<treeVars, listVars, auxVars>>

\* A Root and a Timer of any duration built on it, never started.
InitTimer ==
    /\ RootAndChild("Timer")
    /\ PostInit
    /\ \E d \in Durations : TimerInit(d)
    /\ ListInit(<<>>)
    /\ AuxInit

NextTimer ==
    \/ \E tm \in Comp, from \in Callers : TimerStart(tm, from)
    \/ \E tm \in Comp, from \in Callers : TimerStop(tm, from)
    \/ \E tm \in Comp, from \in Callers, d \in Durations : TimerSetDuration(tm, from, d)
    \/ Tick
    \/ \E tm \in Comp : Expire(tm)
    \/ \E r \in Comp : ExpirationBegin(r)
    \/ \E c \in Comp : Issued < MaxTasks /\ Post(MainThread, c)
    \/ \E r \in Comp : Run(r)
    \/ \E r \in Comp : TaskBegin(r)
    \/ \E r \in Comp : TaskEnd(r)

SpecTimer == InitTimer /\ [][NextTimer]_vars

\* --------------------------------------------------------- MigrationManager
\* Number of values of std::size_t.
SizeMod == 2 ^ SizeBits

\* Conversion of an int to std::size_t, as in the comparison of an int with a
\* std::size_t: the value modulo 2^width, so -1 becomes the largest value.
ToSize(i) == i % SizeMod

\* What can go wrong in one call: nothing, the SELECT of the installed version,
\* the creation of the table, or, at version `at`, the version's own step, the
\* DELETE of the version row, or the INSERT of the new row.
FaultKinds == {"none", "retrieve", "create", "step", "delete", "insert"}
Faults == {[kind |-> k, at |-> v] : k \in FaultKinds, v \in Versions}

\* MigrationManager::retrieve_installed_version: the version in the row, -1
\* when the table has no row, std::nullopt when the table does not exist or the
\* query fails.
retrieve_installed_version(sch, f) ==
    IF ~sch.table \/ f.kind = "retrieve"
    THEN [has |-> FALSE, value |-> NoVersion]
    ELSE [has |-> TRUE, value |-> sch.row]

\* MigrationManager::create_schema_table: false when the statement throws, as
\* it does when the table already exists.
create_schema_table(sch, f) == ~sch.table /\ f.kind # "create"

\* An upgrade loop that stops one version short: `installed_it < end_it`.
RECURSIVE UpgradeLoop_stopsShort(_, _, _, _, _, _)
UpgradeLoop_stopsShort(j, id, sch, app, invoked, f) ==
    IF j >= id
    THEN [result |-> TRUE, schema |-> sch, applied |-> app, invoked |-> invoked]
    ELSE IF f.kind = "step" /\ f.at = j
    THEN [result |-> FALSE, schema |-> sch, applied |-> app, invoked |-> Append(invoked, j)]
    ELSE UpgradeLoop_stopsShort(j + 1, id, [sch EXCEPT !.row = j], app \cup {j},
                                Append(invoked, j), f)

\* An upgrade loop that records the version before it runs the version's step.
RECURSIVE UpgradeLoop_recordsFirst(_, _, _, _, _, _)
UpgradeLoop_recordsFirst(j, id, sch, app, invoked, f) ==
    IF j > id
    THEN [result |-> TRUE, schema |-> sch, applied |-> app, invoked |-> invoked]
    ELSE IF f.kind = "step" /\ f.at = j
    THEN [result |-> FALSE, schema |-> [sch EXCEPT !.row = j], applied |-> app,
          invoked |-> Append(invoked, j)]
    ELSE UpgradeLoop_recordsFirst(j + 1, id, [sch EXCEPT !.row = j], app \cup {j},
                                  Append(invoked, j), f)

\* The loop of upgrade from position j: `while (installed_it <= end_it)` runs
\* the version's upgrade, then delete_installed_version, then
\* add_installed_version(to_install), and returns false at the first of them
\* that fails.
RECURSIVE UpgradeLoop(_, _, _, _, _, _)
UpgradeLoop(j, id, sch, app, invoked, f) ==
    IF j > id
    THEN [result |-> TRUE, schema |-> sch, applied |-> app, invoked |-> invoked]
    ELSE IF f.kind = "step" /\ f.at = j
    THEN [result |-> FALSE, schema |-> sch, applied |-> app, invoked |-> Append(invoked, j)]
    ELSE IF f.kind = "delete" /\ f.at = j
    THEN [result |-> FALSE, schema |-> sch, applied |-> app \cup {j},
          invoked |-> Append(invoked, j)]
    ELSE IF f.kind = "insert" /\ f.at = j
    THEN [result |-> FALSE, schema |-> [sch EXCEPT !.row = NoVersion], applied |-> app \cup {j},
          invoked |-> Append(invoked, j)]
    ELSE UpgradeLoop(j + 1, id, [sch EXCEPT !.row = j], app \cup {j}, Append(invoked, j), f)

\* A downgrade loop that records the version it has just removed.
RECURSIVE DowngradeLoop_recordsRemoved(_, _, _, _, _, _)
DowngradeLoop_recordsRemoved(j, id, sch, app, invoked, f) ==
    IF j < id
    THEN [result |-> TRUE, schema |-> sch, applied |-> app, invoked |-> invoked]
    ELSE IF f.kind = "step" /\ f.at = j
    THEN [result |-> FALSE, schema |-> sch, applied |-> app, invoked |-> Append(invoked, j)]
    ELSE DowngradeLoop_recordsRemoved(j - 1, id, [sch EXCEPT !.row = j],
                                      app \ {j}, Append(invoked, j), f)

\* The loop of downgrade from position j: `while (installed_it >= end_it)`
\* runs the version's downgrade, then delete_installed_version, then, for
\* to_remove > 0, add_installed_version(to_remove - 1).  The iterator is a
\* position in m_versions; one step before begin() it compares below every
\* end_it, which ends the loop.
RECURSIVE DowngradeLoop(_, _, _, _, _, _)
DowngradeLoop(j, id, sch, app, invoked, f) ==
    IF j < id
    THEN [result |-> TRUE, schema |-> sch, applied |-> app, invoked |-> invoked]
    ELSE IF f.kind = "step" /\ f.at = j
    THEN [result |-> FALSE, schema |-> sch, applied |-> app, invoked |-> Append(invoked, j)]
    ELSE IF f.kind = "delete" /\ f.at = j
    THEN [result |-> FALSE, schema |-> sch, applied |-> app \ {j},
          invoked |-> Append(invoked, j)]
    ELSE IF j > 0 /\ f.kind = "insert" /\ f.at = j
    THEN [result |-> FALSE, schema |-> [sch EXCEPT !.row = NoVersion], applied |-> app \ {j},
          invoked |-> Append(invoked, j)]
    ELSE DowngradeLoop(j - 1, id, [sch EXCEPT !.row = IF j > 0 THEN j - 1 ELSE NoVersion],
                       app \ {j}, Append(invoked, j), f)

\* The call made nothing happen and returned r.
Nothing(r, sch, app) == [result |-> r, schema |-> sch, applied |-> app, invoked |-> <<>>]

\* An upgrade that installs again when the requested version is installed.
upgrade_noEarlyReturn(id, pool, sch, app, f) ==
    IF id >= NumVersions \/ ~pool THEN Nothing(FALSE, sch, app)
    ELSE LET installed == retrieve_installed_version(sch, f) IN
         IF ~installed.has
         THEN IF ~create_schema_table(sch, f) THEN Nothing(FALSE, sch, app)
              ELSE UpgradeLoop(0, id, [table |-> TRUE, row |-> NoVersion], app, <<>>, f)
         ELSE UpgradeLoop(IF installed.value >= 0 THEN id ELSE 0, id, sch, app, <<>>, f)

\* MigrationManager::upgrade(id).
upgrade(id, pool, sch, app, f) ==
    IF id >= NumVersions \/ ~pool THEN Nothing(FALSE, sch, app)
    ELSE LET installed == retrieve_installed_version(sch, f) IN
         IF ~installed.has
         THEN IF ~create_schema_table(sch, f) THEN Nothing(FALSE, sch, app)
              ELSE UpgradeLoop(0, id, [table |-> TRUE, row |-> NoVersion], app, <<>>, f)
         ELSE IF installed.value >= 0
         THEN IF ToSize(installed.value) >= id THEN Nothing(TRUE, sch, app)
              ELSE UpgradeLoop(installed.value + 1, id, sch, app, <<>>, f)
         ELSE UpgradeLoop(0, id, sch, app, <<>>, f)

\* MigrationManager::downgrade(id).  `id > installed` compares the std::size_t
\* id with the int in the optional, converted to std::size_t.
downgrade(id, pool, sch, app, f) ==
    IF id >= NumVersions \/ ~pool THEN Nothing(FALSE, sch, app)
    ELSE LET installed == retrieve_installed_version(sch, f) IN
         IF ~installed.has THEN Nothing(FALSE, sch, app)
         ELSE IF id > ToSize(installed.value) THEN Nothing(TRUE, sch, app)
         ELSE DowngradeLoop(installed.value, id, sch, app, <<>>, f)

\* The record of a call: what was asked, what was recorded before, what failed.
MigRecord(op, id, f, r) ==
    [op |-> op, id |-> id, before |-> schema, pool |-> manager_pool,
     fault |-> f.kind, at |-> f.at, invoked |-> r.invoked, result |-> r.result]

\* The faults a call with argument id can meet: faults that differ only in a
\* version no statement is about are one fault, and a call that is rejected
\* before it opens a session meets none.
FaultsOfCall(id) ==
    {f \in Faults :
        /\ f.kind \in {"none", "retrieve", "create"} => f.at = 0
        /\ (id >= NumVersions \/ ~manager_pool) => f.kind = "none"}

\* A call of upgrade(id) during which f goes wrong.
Upgrade(id, f) ==
    /\ LET r == upgrade(id, manager_pool, schema, applied, f) IN
       /\ schema' = r.schema
       /\ applied' = r.applied
       /\ lastMig' = MigRecord("upgrade", id, f, r)
    /\ UNCHANGED <<manager_pool, clientVars, parserVars, copyVars>>
    /\ UNCHANGED <<treeVars, postVars, timerVars, listVars>>

\* A call of downgrade(id) during which f goes wrong.
Downgrade(id, f) ==
    /\ LET r == downgrade(id, manager_pool, schema, applied, f) IN
       /\ schema' = r.schema
       /\ applied' = r.applied
       /\ lastMig' = MigRecord("downgrade", id, f, r)
    /\ UNCHANGED <<manager_pool, clientVars, parserVars, copyVars>>
    /\ UNCHANGED <<treeVars, postVars, timerVars, listVars>>

\* MigrationManager::set_pool(client.pool()).
SetPool ==
    /\ manager_pool # m_pool
    /\ manager_pool' = m_pool
    /\ UNCHANGED <<schema, applied, lastMig, clientVars, parserVars, copyVars>>
    /\ UNCHANGED <<treeVars, postVars, timerVars, listVars>>

\* ------------------------------------------------------------------- Client
\* How a connection attempt goes: every session opens, a session's open
\* throws, or the construction of the pool itself throws.
ConnectOutcomes == {"opens", "open_throws", "pool_throws"}

\* A connect_sqlite whose catch block leaves the pool in place.
connect_sqlite_keepsPool(init, backend, pool, o) ==
    IF init \/ backend # "None"
    THEN [m_initialized |-> init, m_backend |-> backend, m_pool |-> pool, result |-> FALSE]
    ELSE IF o = "pool_throws"
    THEN [m_initialized |-> init, m_backend |-> backend, m_pool |-> pool, result |-> FALSE]
    ELSE IF o = "opens"
    THEN [m_initialized |-> TRUE, m_backend |-> "Sqlite", m_pool |-> TRUE, result |-> TRUE]
    ELSE [m_initialized |-> FALSE, m_backend |-> "None", m_pool |-> TRUE, result |-> FALSE]

\* Client::connect_sqlite: rejected when already connected; otherwise
\* m_pool = make_unique<Pool>(m_pool_size) (an exception of which leaves the
\* client as it was), then every session is opened; success sets the backend
\* and the flag, the catch block resets pool, backend and flag.
connect_sqlite(init, backend, pool, o) ==
    IF init \/ backend # "None"
    THEN [m_initialized |-> init, m_backend |-> backend, m_pool |-> pool, result |-> FALSE]
    ELSE IF o = "pool_throws"
    THEN [m_initialized |-> init, m_backend |-> backend, m_pool |-> pool, result |-> FALSE]
    ELSE IF o = "opens"
    THEN [m_initialized |-> TRUE, m_backend |-> "Sqlite", m_pool |-> TRUE, result |-> TRUE]
    ELSE [m_initialized |-> FALSE, m_backend |-> "None", m_pool |-> FALSE, result |-> FALSE]

\* A call of connect_sqlite that goes as o says.
ConnectSqlite(o) ==
    /\ LET r == connect_sqlite(m_initialized, m_backend, m_pool, o) IN
       /\ m_initialized' = r.m_initialized
       /\ m_backend' = r.m_backend
       /\ m_pool' = r.m_pool
       /\ lastConnect' = [op |-> "connect_sqlite", how |-> o, result |-> r.result,
                          was |-> m_initialized]
    /\ UNCHANGED <<migVars, parserVars, copyVars>>
    /\ UNCHANGED <<treeVars, postVars, timerVars, listVars>>

\* Client::disconnect: nothing when not connected; otherwise the pool is
\* released and backend and flag reset.  The pool is not released while the
\* MigrationManager still points to it.
Disconnect ==
    /\ ~manager_pool
    /\ IF ~m_initialized \/ m_backend = "None"
       THEN UNCHANGED <<m_initialized, m_backend, m_pool>>
       ELSE /\ m_pool' = FALSE
            /\ m_backend' = "None"
            /\ m_initialized' = FALSE
    /\ lastConnect' = [op |-> "disconnect", how |-> "none", result |-> TRUE, was |-> m_initialized]
    /\ UNCHANGED <<migVars, parserVars, copyVars>>
    /\ UNCHANGED <<treeVars, postVars, timerVars, listVars>>

\* A Root and a Component, a Client not connected, a MigrationManager with
\* NumVersions versions and no pool, and a database without version table.
InitDb ==
    /\ RootAndChild("Component")
    /\ PostInit
    /\ TimerInit(0)
    /\ ListInit(<<>>)
    /\ AuxInit

NextDb ==
    \/ \E id \in 0..NumVersions : \E f \in FaultsOfCall(id) : Upgrade(id, f)
    \/ \E id \in 0..NumVersions : \E f \in FaultsOfCall(id) : Downgrade(id, f)
    \/ SetPool
    \/ \E o \in ConnectOutcomes : ConnectSqlite(o)
    \/ Disconnect

SpecDb == InitDb /\ [][NextDb]_vars

\* ================================================================ claims
RECURSIVE Ancestors(_)
\* The proper ancestors of c along m_parent.
Ancestors(c) ==
    IF m_parent[c] = NULL THEN {} ELSE {m_parent[c]} \cup Ancestors(m_parent[c])

\* The objects constructed below r.
Descendants(r) == {d \in Comp : status[d] # "unborn" /\ r \in Ancestors(d)}

\* No object below r is an automatic object.
HeapTree(r) == \A d \in Descendants(r) : storage[d] \in {"heap", "member"}

Reverse(s) == [i \in 1..Len(s) |-> s[Len(s) + 1 - i]]

IsPrefix(s, t) == Len(s) <= Len(t) /\ \A i \in 1..Len(s) : s[i] = t[i]

\* C1: once the destructor of the root of a heap-allocated tree has returned,
\* every descendant is destroyed, and no descendant's destructor has run twice.
C1_DescendantsDestroyedOnce ==
    \A r \in Comp :
        HeapTree(r) =>
            /\ \A d \in Descendants(r) : dtorCount[d] <= 1
            /\ status[r] = "destroyed" =>
                  \A d \in Descendants(r) : status[d] = "destroyed" /\ dtorCount[d] = 1

\* A heap root with a child and a grandchild has been deleted.
C1_Witness ==
    \E r \in Comp, d \in Comp, e \in Comp :
        /\ status[r] = "destroyed" /\ storage[r] = "heap" /\ HeapTree(r)
        /\ m_parent[d] = r /\ m_parent[e] = d
        /\ storage[d] = "heap" /\ storage[e] = "heap"
        /\ stack = <<>>

\* C2 (as stated): while the destructor of a descendant runs inside a teardown,
\* none of its ancestors is destroyed and the event loop its context() resolves
\* to, owned by a Root or Branch above it, still exists.
C2_AncestorsAndReactorAlive ==
    \A i \in 2..Len(stack) :
        LET d == stack[i].obj IN
        /\ \A a \in Ancestors(d) : status[a] # "destroyed"
        /\ (context(d) # NoContext /\ context(d) # d) => contextAlive[context(d)]

\* C3: ~Component deletes the children it finds in reverse registration order,
\* and the object is still in its parent's list until all of them are destroyed.
C3_ReverseOrderThenUnlink ==
    \A p \in Comp :
        /\ IsPrefix(delOrder[p], Reverse(remaining[p]))
        /\ status[p] = "destroyed" =>
              /\ delOrder[p] = Reverse(remaining[p])
              /\ \A i \in 1..Len(remaining[p]) : status[remaining[p][i]] = "destroyed"
        /\ (status[p] = "destructing" /\ m_parent[p] # NULL) =>
              Count(m_children[m_parent[p]], p) = 1

\* An object that had two children when its destructor began has gone, the
\* child registered last deleted first.
C3_Witness ==
    \E p \in Comp :
        /\ status[p] = "destroyed"
        /\ Len(remaining[p]) >= 2
        /\ delOrder[p][1] = remaining[p][Len(remaining[p])]

\* Every live object with a parent is in that parent's list once and in no other list.
RegisteredOnce ==
    \A c \in Comp :
        (status[c] \in {"alive", "destructing"} /\ m_parent[c] # NULL) =>
            \A q \in Comp :
                Count(m_children[q], c) = IF q = m_parent[c] THEN 1 ELSE 0

\* m_parent of a constructed object does not change in this step.
ParentFixed == \A c \in Comp : status[c] # "unborn" => m_parent'[c] = m_parent[c]

\* C4: in every reachable state each live object with a parent is registered
\* exactly once, with that parent only, and m_parent never changes after
\* construction.
C4_RegisteredOnceParentFixed == [](RegisteredOnce) /\ [][ParentFixed]_vars

\* A child is still registered with its live parent after a sibling has gone.
C4_Witness ==
    \E c \in Comp, d \in Comp :
        /\ c # d /\ m_parent[c] # NULL /\ m_parent[c] = m_parent[d]
        /\ status[c] = "alive" /\ status[d] = "destroyed"
        /\ status[m_parent[c]] = "alive"
        /\ m_children[m_parent[c]] = <<c>>

\* The object whose destruction the user or the scope began (in this step or before).
TeardownRoot == IF stack # <<>> THEN stack[1].obj ELSE stack'[1].obj

\* C5: a teardown begun at an object A changes nothing outside A's subtree but
\* the removal of A from its parent's list, which happens only once every
\* descendant of A is destroyed; and a destroyed heap object is not destroyed
\* again by any later teardown.
C5_SubtreeOnly ==
    [][ /\ (stack # <<>> \/ stack' # <<>>) =>
            LET a == TeardownRoot
                inside == {a} \cup Descendants(a)
            IN
            /\ \A c \in Comp \ inside :
                  /\ status'[c] = status[c]
                  /\ dtorCount'[c] = dtorCount[c]
                  /\ deleteCount'[c] = deleteCount[c]
                  /\ m_children'[c] # m_children[c] =>
                        /\ c = m_parent[a]
                        /\ m_children'[c] = SelectSeq(m_children[c], LAMBDA x : x # a)
                        /\ \A d \in Descendants(a) : status[d] = "destroyed"
        /\ \A c \in Comp :
              (status[c] = "destroyed" /\ storage[c] = "heap") =>
                  dtorCount'[c] = dtorCount[c] /\ status'[c] = "destroyed"
      ]_vars

\* Root 1, heap A = 2 under it, heap B = 3 under A: A was deleted by the user
\* (B went first), and the Root was destroyed after that.
C5_Witness ==
    /\ log = <<3, 2, 1>>
    /\ m_parent[2] = 1 /\ m_parent[3] = 2
    /\ storage[2] = "heap" /\ storage[3] = "heap"
    /\ deleteCount[2] = 0 /\ deleteCount[3] = 1
    /\ \A c \in {1, 2, 3} : dtorCount[c] = 1
    /\ stack = <<>>

\* C6: an automatic or member object that was destroyed by its own scope or
\* owner (not by a parent's delete) is never deleted by a later teardown of its
\* parent, and its destructor has run once.
C6_SelfRemovedNeverDeleted ==
    [][ \A c \in Comp :
          (storage[c] \in {"stack", "member"} /\ status[c] = "destroyed" /\ deleteCount[c] = 0) =>
              /\ dtorCount[c] = 1
              /\ deleteCount'[c] = 0
              /\ dtorCount'[c] = 1
      ]_vars

\* An automatic child and then its automatic parent have been unwound, and a
\* Branch has gone after its wrapped member, with no delete applied to them.
C6_Witness ==
    \/ \E c \in Comp, p \in Comp :
        /\ m_parent[c] = p
        /\ storage[c] = "stack" /\ storage[p] = "stack"
        /\ status[c] = "destroyed" /\ status[p] = "destroyed"
        /\ deleteCount[c] = 0 /\ dtorCount[c] = 1
        /\ remaining[p] = <<>>
    \/ \E b \in Comp :
        /\ kind[b] = "Branch" /\ status[b] = "destroyed"
        /\ deleteCount[wrapped[b]] = 0 /\ dtorCount[wrapped[b]] = 1

\* C7 (as stated): the child list of an object whose destructor is in progress
\* is never changed.
C7_NoMutationDuringTeardown ==
    [][ \A p \in Comp : status[p] = "destructing" => m_children'[p] = m_children[p] ]_vars

\* C7 (amended): the child list of an object whose destructor is in progress is
\* changed only by the self-removal of the child that destructor is destroying
\* at that moment, as that child's destructor returns; the list of a destroyed
\* object is never changed.
C7_OnlyTheChildBeingDestroyed ==
    [][ \A p \in Comp :
          /\ (status[p] = "destructing" /\ m_children'[p] # m_children[p]) =>
                /\ Len(stack) >= 2
                /\ stack[Len(stack) - 1].obj = p
                /\ m_parent[Top.obj] = p
                /\ status'[Top.obj] = "destroyed"
                /\ m_children'[p] = SelectSeq(m_children[p], LAMBDA x : x # Top.obj)
          /\ status[p] = "destroyed" => m_children'[p] = m_children[p]
      ]_vars

\* A destructor is in its child loop, has deleted one child, which has removed
\* itself, and has more to delete.
C7_Witness ==
    \E p \in Comp :
        /\ status[p] = "destructing"
        /\ delOrder[p] # <<>>
        /\ status[delOrder[p][1]] = "destroyed"
        /\ Len(m_children[p]) < Len(remaining[p])
        /\ m_children[p] # <<>>

\* The Roots and Branches among c and its ancestors.
RootsAbove(c) == {x \in {c} \cup Ancestors(c) : IsRootKind(kind[x])}

\* C8: context() of an object is the nearest Root or Branch among the object and
\* its ancestors; for a Root or Branch, with or without a parent, it is itself.
C8_ContextNearestRoot ==
    \A c \in Comp :
        (status[c] # "unborn" /\ RootsAbove(c) # {}) =>
            /\ context(c) \in RootsAbove(c)
            /\ \A x \in RootsAbove(c) \ {context(c)} : x \in Ancestors(context(c))
            /\ IsRootKind(kind[c]) => context(c) = c

\* A Root or Branch with a Root above it and a plain Component below it.
C8_Witness ==
    \E c \in Comp :
        /\ status[c] = "alive" /\ kind[c] = "Component"
        /\ m_parent[c] # NULL /\ IsRootKind(kind[m_parent[c]])
        /\ m_parent[m_parent[c]] # NULL
        /\ IsRootKind(kind[m_parent[m_parent[c]]])
        /\ context(c) = m_parent[c]

\* C9: on each event loop at most one handler executes at a time, only while a
\* thread is inside run(), and each producer's handlers begin in the order the
\* producer issued them.
C9_OneAtATimeInIssueOrder ==
    \A r \in Comp :
        /\ Cardinality(running[r]) <= 1
        /\ running[r] # {} => loop[r] = "running"
        /\ lastRun[r] # NoRun => lastRun[r].n > lastRun[r].prev
        /\ \A i \in 1..Len(queue[r]) : queue[r][i].n > lastN[r][queue[r][i].by]

\* Both producers have had handlers run, one of them its second.
C9_Witness ==
    \E r \in Comp :
        /\ lastRun[r].prev >= 1
        /\ \A t \in {1, 2} : lastN[r][t] >= 1

\* C10: a handler observes the argument value of the time of the call.
C10_ArgumentsCopiedAtCall ==
    \A r \in Comp : lastRun[r] # NoRun => lastRun[r].observed = lastRun[r].sent

\* A handler has begun after its caller changed the variable it had passed.
C10_Witness ==
    \E r \in Comp :
        /\ lastRun[r] # NoRun
        /\ lastRun[r].callerNow # lastRun[r].sent
        /\ lastRun[r].observed = lastRun[r].sent

\* ---------------------------------------------------------------- C11
\* Object r owns an event loop.
OwnsLoop(r) == IsRootKind(kind[r])

\* C11: a task posted to an event loop that is never run, or that is destroyed
\* before the task is processed, is never executed: no handler still queued
\* has been executed, no handler has run on a loop that no thread entered, a
\* destroyed event loop holds no handler and runs none, and a handler that was
\* destroyed with its event loop is never executed, then or later.
C11_UndeliveredNeverExecuted ==
    /\ \A r \in Comp : \A s \in SeqsOf(queue[r]) : execCount[s] = 0
    /\ \A r \in Comp : loop[r] = "idle" => lastRun[r] = NoRun
    /\ \A r \in Comp : (OwnsLoop(r) /\ ~contextAlive[r]) => (queue[r] = <<>> /\ running[r] = {})
    /\ \A s \in discarded : execCount[s] = 0

\* Both event loops are destroyed; one was never run and one was stopped with a
\* task still queued, and the tasks of both were discarded.
C11_Witness ==
    /\ status[1] = "destroyed" /\ status[2] = "destroyed"
    /\ \E r1, r2 \in Comp :
          /\ r1 # r2 /\ OwnsLoop(r1) /\ OwnsLoop(r2)
          /\ loop[r1] = "idle" /\ loop[r2] = "returned"
    /\ Cardinality(discarded) >= 2
    /\ \E s \in Seqs : execCount[s] = 1

\* ---------------------------------------------------------------- C12
\* run() has been called on r: a thread is inside m_context.run(), or the
\* worker thread of the Branch is started and on its way there.
RunCalled(r) == loop[r] = "running" \/ (m_worker[r] = "started" /\ loop[r] = "idle")

\* Call s waits in the queue of an event loop whose run() was called and whose
\* stop() was not.
Pending(s) == \E r \in Comp : s \in SeqsOf(queue[r]) /\ RunCalled(r) /\ ~stopped[r]

\* Call s has been executed, or stop() was requested on the loop holding it.
Served(s) == execCount[s] >= 1 \/ \E r \in Comp : s \in SeqsOf(queue[r]) /\ stopped[r]

\* The handlers of every queue are in posting order, all later than the
\* handler that loop began last.
InPostingOrder ==
    \A r \in Comp : \A i \in 1..Len(queue[r]) :
        /\ queue[r][i].seq > lastRun[r].seq
        /\ \A j \in 1..Len(queue[r]) : i < j => queue[r][i].seq < queue[r][j].seq

\* C12: tasks posted to a Root or Branch before run() are retained, and once
\* run() is called and while stop() is not requested each of them is executed,
\* exactly once and in posting order.
C12_RetainedThenRunInOrder ==
    /\ [](\A s \in Seqs : execCount[s] <= 1)
    /\ []InPostingOrder
    /\ \A s \in Seqs : Pending(s) ~> Served(s)

\* The worker of the Branch found two tasks queued when it entered run(); the
\* first was executed and has returned, the second is being executed.
C12_Witness ==
    \E b \in Comp :
        /\ kind[b] = "Branch" /\ ~stopped[b]
        /\ backlog[b] = 1
        /\ \E h \in running[b] : h.seq = 2 /\ execCount[1] = 1 /\ execCount[2] = 1
        /\ lastN[b][MainThread] = 2

\* ---------------------------------------------------------------- C13
\* C13: Root::run() blocks for as long as stop() has not been called: the
\* thread inside m_context.run() leaves it only on an event loop that was
\* stopped, never because the queue is empty or the loop idle.
C13_RunBlocksUntilStop ==
    [][\A r \in Comp : (loop[r] = "running" /\ loop'[r] # "running") => stopped[r]]_vars

\* A Root whose loop has executed a task and is now idle with an empty queue;
\* stop() was not called and the caller is still inside run().
C13_Witness ==
    \E r \in Comp :
        /\ kind[r] = "Root" /\ loop[r] = "running" /\ ~stopped[r]
        /\ queue[r] = <<>> /\ running[r] = {}
        /\ lastRun[r] # NoRun

\* ---------------------------------------------------------------- C14
\* C14: Root::stop() may be called from any thread or from a task running on
\* the loop, once or repeatedly: after a call, a run() in progress eventually
\* returns (the task being executed terminates), and a further stop() changes
\* nothing: the loop stays stopped and no other state is touched.
C14_StopEndsRun ==
    /\ \A r \in Comp : (stopped[r] /\ loop[r] = "running") ~> (loop[r] = "returned")
    /\ [][\A r \in Comp : stopped[r] => stopped'[r]]_vars
    /\ [][\A r \in Comp : (stopped[r] /\ Stop(r)) => UNCHANGED vars]_vars

\* stop() was called while a task was being executed on the loop, and run() has
\* not returned yet.
C14_Witness ==
    \E r \in Comp :
        /\ OwnsLoop(r) /\ stopped[r] /\ loop[r] = "running"
        /\ running[r] # {}

\* ---------------------------------------------------------------- C15
\* C15: after any sequence of Branch::run() calls exactly one background thread
\* has been spawned: every call leaves the Branch with one thread started in
\* all, and a call made when a thread was already started, whether its event
\* loop still runs or was stopped and has returned, changes nothing.
C15_OneThreadSpawned ==
    /\ [](\A b \in Comp : spawned[b] <= 1 /\ (spawned[b] = 1 <=> m_worker[b] # "none"))
    /\ [][\A b \in Comp : BranchRun(b) => spawned'[b] = 1]_vars
    /\ [][\A b \in Comp : (BranchRun(b) /\ spawned[b] = 1) => UNCHANGED vars]_vars

\* A live Branch whose thread was started once and whose event loop was stopped
\* and has returned: run() can still be called on it.
C15_Witness ==
    \E b \in Comp :
        /\ kind[b] = "Branch" /\ status[b] = "alive"
        /\ spawned[b] = 1 /\ m_worker[b] = "finished" /\ loop[b] = "returned"

\* ---------------------------------------------------------------- C16
\* Some part of Branch b is being or has been torn down: its destructor is past
\* the body, its wrapped component or its event loop is no longer intact.
TornDown(b) ==
    \/ status[b] = "destroyed"
    \/ status[wrapped[b]] # "alive"
    \/ ~contextAlive[b]
    \/ \E i \in 1..Len(stack) : stack[i].obj = b /\ stack[i].pc \notin {"branch", "join"}

\* C16: when a Branch whose thread was started is destroyed, the event loop is
\* stopped and the worker thread joined before the wrapped component or any
\* other member is torn down: while any part of the Branch is torn down no
\* thread is inside its event loop and no task is being executed on it, and
\* once the join has completed no task is begun on it any more.
C16_JoinedBeforeTeardown ==
    /\ [](\A b \in Comp : (kind[b] = "Branch" /\ TornDown(b)) =>
              /\ running[b] = {}
              /\ loop[b] # "running"
              /\ m_worker[b] \in {"none", "joined"}
              /\ (m_worker[b] = "joined" => stopped[b]))
    /\ [][\A b \in Comp : m_worker[b] = "joined" =>
              (lastRun'[b] = lastRun[b] /\ running'[b] = {})]_vars

\* A Branch whose worker executed a task, was stopped with another task still
\* queued and joined, and whose wrapped component is now being destroyed.
C16_Witness ==
    \E b \in Comp :
        /\ kind[b] = "Branch" /\ m_worker[b] = "joined"
        /\ lastRun[b] # NoRun /\ queue[b] # <<>>
        /\ status[wrapped[b]] = "destructing"

\* ---------------------------------------------------------------- C17
\* The destructor of Branch b is inside ~Branch's body.
InBody(b) == \E i \in 1..Len(stack) : stack[i].obj = b /\ stack[i].pc \in {"branch", "join"}

\* C17: destroying a Branch whose thread was started always completes: the
\* destructor's stop() followed by join() returns under every interleaving of
\* the worker's start-up, the execution of tasks and the destructor, also when
\* stop() takes effect before the worker has entered the event loop (each task
\* terminates; the destructor runs on another thread than the worker).
C17_DestructorJoins ==
    \A b \in Comp : (InBody(b) /\ joinable(m_worker[b])) ~> (m_worker[b] = "joined")

\* The destructor has called stop() and waits in join() while the worker thread
\* is started but has not entered the event loop yet.
C17_Witness ==
    \E b \in Comp :
        /\ stack # <<>> /\ Top.obj = b /\ Top.pc = "join"
        /\ m_worker[b] = "started" /\ loop[b] = "idle" /\ stopped[b]

\* ---------------------------------------------------------------- C18
\* C18: the component wrapped by a Branch resolves context() to the Branch's
\* own event loop, so a method deferred to it from another thread is queued on
\* that loop and executed by the Branch's worker thread, never by the thread
\* that made the call: the wrapped component's context() is the Branch, and
\* every task begun on the Branch's loop runs on the worker thread, which is
\* not the thread that made the call.
C18_WrappedRunsOnWorker ==
    \A b \in Comp : kind[b] = "Branch" =>
        /\ context(wrapped[b]) = b
        /\ lastRun[b] # NoRun =>
              /\ lastRun[b].thread = WorkerOf(b)
              /\ lastRun[b].thread # lastRun[b].by
        /\ \A h \in running[b] : LoopThread(b) # h.by

\* The main thread deferred a call to the wrapped component and the worker
\* thread of the Branch is executing it, while the Root's loop is not run.
C18_Witness ==
    \E b \in Comp :
        /\ kind[b] = "Branch" /\ loop[b] = "running"
        /\ \E h \in running[b] : h.by = MainThread
        /\ lastRun[b].thread = WorkerOf(b)
        /\ loop[m_parent[b]] = "idle" /\ lastRun[m_parent[b]] = NoRun

\* ---------------------------------------------------------------- C19
\* C19: invoking a default-constructed (unbound) callback always signals
\* std::bad_function_call to the caller and invokes nothing: the invocation
\* ends with the exception, and the step executes no callable, queues no
\* handler and counts as no call.
C19_EmptyCallbackThrows ==
    /\ [](\A t \in Producers : lastCall[t].cb = "Empty" =>
              (lastCall[t].outcome = "bad_function_call" /\ lastCall[t].seq = 0))
    /\ [][\A t \in Producers : InvokeEmpty(t) =>
              (/\ lastCall'[t].outcome = "bad_function_call"
               /\ UNCHANGED <<queue, execCount, issued, running, lastRun>>)]_vars

\* A thread invoked an unbound callback while a deferred call was still queued;
\* the invocation threw and the queued call is untouched.
C19_Witness ==
    \E t \in Producers :
        /\ lastCall[t].cb = "Empty" /\ lastCall[t].outcome = "bad_function_call"
        /\ \E r \in Comp : queue[r] # <<>>
        /\ \A s \in Seqs : execCount[s] = 0

\* ---------------------------------------------------------------- C20
\* C20: invoking a Direct callback runs the bound callable synchronously on the
\* invoking thread, completed when the invocation returns, whether or not any
\* event loop is running and ahead of Deferred calls issued earlier that are
\* still queued: the call was executed once, by the caller's thread, and no
\* handler was queued for it.
C20_DirectRunsInCaller ==
    /\ [](\A t \in Producers : lastCall[t].cb = "Direct" =>
              /\ lastCall[t].outcome = "returned"
              /\ lastCall[t].thread = t
              /\ execCount[lastCall[t].seq] = 1
              /\ \A r \in Comp : lastCall[t].seq \notin SeqsOf(queue[r]))
    /\ [][\A t \in Producers, c \in Comp : InvokeDirect(t, c) =>
              (execCount'[Issued + 1] = 1 /\ UNCHANGED <<queue, running, lastRun>>)]_vars

\* A Direct callback was invoked and has run while no thread was inside run()
\* and a Deferred call issued before it is still waiting, not executed.
C20_Witness ==
    \E t \in Producers, r \in Comp :
        /\ lastCall[t].cb = "Direct" /\ execCount[lastCall[t].seq] = 1
        /\ loop[r] = "idle" /\ kind[r] = "Root"
        /\ \E s \in SeqsOf(queue[r]) : s < lastCall[t].seq /\ execCount[s] = 0

\* ---------------------------------------------------------------- C21
\* C21: invoking a DeferredCallback never runs the bound callable inside the
\* invocation: the invocation appends exactly one handler to the queue of the
\* event loop its component resolves to and executes nothing; a handler is
\* executed on the thread running that loop, and everything still queued on
\* the loop was posted after the handler the loop began last.
C21_DeferredPostsOneTask ==
    /\ [][\A t \in Producers, c \in Comp :
            InvokeDeferred(t, c) =>
                /\ execCount' = execCount
                /\ running' = running
                /\ queue'[context(c)] # <<>>
                /\ Len(queue'[context(c)]) = Len(queue[context(c)]) + 1
                /\ SubSeq(queue'[context(c)], 1, Len(queue[context(c)])) = queue[context(c)]
                /\ queue'[context(c)][Len(queue'[context(c)])].seq = Issued + 1
                /\ queue'[context(c)][Len(queue'[context(c)])].by = t
                /\ \A r \in Comp \ {context(c)} : queue'[r] = queue[r]]_vars
    /\ [](\A r \in Comp :
            /\ lastRun[r] # NoRun => lastRun[r].thread = LoopThread(r)
            /\ \A i \in 1..Len(queue[r]) : queue[r][i].seq > lastRun[r].seq
            /\ \A s \in Seqs : execCount[s] <= 1)

\* The loop of the Root executes the second deferred call on its own thread
\* while a third, invoked by another thread, waits behind it.
C21_Witness ==
    \E r \in Comp :
        /\ lastRun[r].seq = 2
        /\ lastRun[r].thread = LoopThread(r)
        /\ running[r] # {}
        /\ lastCall = [t \in Producers |-> NoCall]
        /\ Len(queue[r]) = 1
        /\ queue[r][1].by # lastRun[r].by

\* ---------------------------------------------------------------- C22
\* C22: an invocation of a CallbackList invokes each contained callback
\* exactly once, with the arguments given to the list, in the order the
\* callbacks were listed at construction.
C22_EachMemberOnceInOrder ==
    listOutcome # "none" =>
        /\ Len(listLog) = Len(m_callbacks)
        /\ \A j \in 1..Len(listLog) :
            /\ listLog[j].member = j
            /\ listLog[j].arg = listLog[j].given

\* ---------------------------------------------------------------- C23
\* C23: an invocation of a CallbackList invokes every contained callback, also
\* those listed after a member whose invocation failed.
C23_AllInvokedDespiteFailure ==
    listOutcome # "none" =>
        \A i \in 1..Len(m_callbacks) : \E j \in 1..Len(listLog) : listLog[j].member = i

C25_OncePerUncancelledElapse ==
    \A w \in Waits :
        /\ fired[w] <= 1
        /\ fired[w] = 1 =>
            /\ waitLog[w].from # "none"
            /\ waitLog[w].due = 0
            /\ waitLog[w].stopped = "no"
        /\ (waitLog[w].delivered /\ waitLog[w].stopped = "no") => fired[w] = 1

\* ---------------------------------------------------------------- C26
\* The completion handler of wait w is in the queue of event loop r.
Queued(w, r) == \E i \in 1..Len(queue[r]) : queue[r][i].by = 0 /\ queue[r][i].wait = w

\* C26: a start() called from inside on_expired re-arms the timer: the new
\* wait is pending or its handler queued until it is delivered, and unless
\* somebody stops it its delivery invokes on_expired, exactly once.
C26_RearmInsideHandlerFiresOnce ==
    \A w \in Waits :
        waitLog[w].from = "on_expired" =>
            /\ \E v \in Waits : v < w /\ fired[v] = 1
            /\ fired[w] <= 1
            /\ ~waitLog[w].delivered =>
                /\ fired[w] = 0
                /\ (m_timer.wait = w \/ \E r \in Comp : Queued(w, r))
            /\ (waitLog[w].delivered /\ waitLog[w].stopped = "no") => fired[w] = 1

\* on_expired armed the second wait from inside its first invocation, and has
\* been invoked for the second wait too.
C26_Witness ==
    /\ fired[1] = 1
    /\ waitLog[2].from = "on_expired"
    /\ waitLog[2].stopped = "no"
    /\ fired[2] = 1

\* ---------------------------------------------------------------- C27
\* C27: when stop() is called on a wait that has already elapsed but whose
\* completion has not been delivered yet, on_expired is not invoked for it.
C27_StopAfterElapseSilences ==
    \A w \in Waits :
        (waitLog[w].stopped \in {"elapsed", "queued"} /\ waitLog[w].stoppedBy = "stop") =>
            fired[w] = 0

\* ---------------------------------------------------------------- C28
\* C28: set_duration(d) changes the stored duration and nothing else: the
\* pending wait, the queued handlers and the invocations made are as before;
\* the next start() arms a wait of the stored duration; and on_expired is never
\* invoked for a wait before the duration in effect at its start() has elapsed.
C28_SetDurationAffectsNextStartOnly ==
    /\ [][\A tm \in Comp, from \in Callers, d \in Durations :
            TimerSetDuration(tm, from, d) =>
                /\ m_duration' = d
                /\ m_timer' = m_timer
                /\ queue' = queue
                /\ fired' = fired
                /\ waitLog' = waitLog]_vars
    /\ [][\A tm \in Comp, from \in Callers :
            TimerStart(tm, from) =>
                /\ m_timer'.wait = armed + 1
                /\ m_timer'.left = m_duration
                /\ m_duration' = m_duration]_vars
    /\ [](\A w \in Waits :
            /\ fired[w] >= 1 => waitLog[w].due = 0
            /\ m_timer.wait = w => m_timer.left = waitLog[w].due)

\* A wait armed with one tick has that tick left while the stored duration
\* has been set to zero.
C28_Witness ==
    /\ m_timer # NoWait
    /\ m_timer.left = 1
    /\ waitLog[m_timer.wait].due = 1
    /\ m_duration = 0

\* ---------------------------------------------------------------- C29
\* C29: a start() called while a wait is armed supersedes that wait, which
\* never invokes on_expired; so when every wait but the newest was superseded
\* by a start(), on_expired is invoked at most once in all.
C29_RestartSupersedes ==
    /\ \A w \in Waits : waitLog[w].stoppedBy = "start" => fired[w] = 0
    /\ (\A w \in Waits : w < armed => waitLog[w].stoppedBy = "start") =>
            Cardinality({w \in Waits : fired[w] >= 1}) <= 1

\* ---------------------------------------------------------------- C30
\* C30: on_expired is executed only by the event loop the Timer's context()
\* resolves to, as the completion handler that loop has taken from its queue,
\* on the thread inside that loop's run(); no call of start(), stop() or
\* set_duration() invokes it.
C30_FiresOnlyAsLoopTask ==
    /\ [](lastFire # NoFire =>
            /\ lastFire.inside = "handler"
            /\ \A tm \in Comp : kind[tm] = "Timer" => lastFire.reactor = context(tm)
            /\ lastFire.thread = LoopThread(lastFire.reactor))
    /\ [][\A tm \in Comp, from \in Callers :
            (TimerStart(tm, from) \/ TimerStop(tm, from)
                \/ \E d \in Durations : TimerSetDuration(tm, from, d)) =>
                (fired' = fired /\ lastFire' = lastFire /\ running' = running)]_vars
    /\ [][fired' # fired =>
            \E tm \in Comp : kind[tm] = "Timer" /\ ExpirationBegin(context(tm))]_vars

\* on_expired is being executed by the loop of the Root, on the thread inside
\* run(), for a wait of no duration that a task of that loop had started.
C30_Witness ==
    \E w \in Waits :
        /\ fired[w] = 1
        /\ lastFire.wait = w
        /\ waitLog[w].from = "task"
        /\ waitLog[w].stopped = "no"
        /\ lastFire.thread = LoopThread(lastFire.reactor)
        /\ \E h \in running[lastFire.reactor] : h.by = 0 /\ h.wait = w

\* ---------------------------------------------------------------- C31
\* The version recorded as installed in database state sch: -1 when the table
\* has no row or does not exist.
Recorded(sch) == IF sch.table THEN sch.row ELSE NoVersion

\* The identifiers from a up to b, ascending.
Ascending(a, b) == [i \in 1..(b - a + 1) |-> a + i - 1]

\* The identifiers from a down to b, descending.
Descending(a, b) == [i \in 1..(a - b + 1) |-> a - i + 1]

\* C31: a call upgrade(id) with id registered, the pool configured, the
\* recorded installed version k below id and nothing failing invokes upgrade()
\* of versions k+1, ..., id, each once and in ascending order, returns true, and
\* leaves id recorded as installed.
C31_UpgradeInstallsInOrder ==
    (/\ lastMig.op = "upgrade"
     /\ lastMig.id \in Versions
     /\ lastMig.pool
     /\ lastMig.fault = "none"
     /\ Recorded(lastMig.before) < lastMig.id) =>
        /\ lastMig.invoked = Ascending(Recorded(lastMig.before) + 1, lastMig.id)
        /\ lastMig.result
        /\ schema.table
        /\ Recorded(schema) = lastMig.id
        /\ \A v \in Recorded(lastMig.before) + 1 .. lastMig.id : v \in applied

\* upgrade(2) was called with version 0 recorded, invoked versions 1 and 2 and
\* returned true.
C31_Witness ==
    /\ lastMig.op = "upgrade"
    /\ lastMig.id = 2
    /\ Recorded(lastMig.before) = 0
    /\ lastMig.invoked = <<1, 2>>
    /\ lastMig.result
    /\ Recorded(schema) = 2

\* ---------------------------------------------------------------- C32
\* The last call reached version lastMig.at and that version's own step
\* reported failure.
StepFailed ==
    /\ lastMig.fault = "step"
    /\ lastMig.invoked # <<>>
    /\ lastMig.invoked[Len(lastMig.invoked)] = lastMig.at

\* C32: when the upgrade (downgrade) step of version j reports failure, the
\* call returns false, version j is the last one invoked, each version was
\* invoked once, and the recorded installed version is that of the last
\* completed step: j-1 when upgrading, j when downgrading.
C32_StepFailureStopsAndKeepsRecord ==
    StepFailed =>
        /\ ~lastMig.result
        /\ \A i, k \in 1..Len(lastMig.invoked) : i # k => lastMig.invoked[i] # lastMig.invoked[k]
        /\ \A i \in 1..Len(lastMig.invoked) :
            IF lastMig.op = "upgrade" THEN lastMig.invoked[i] <= lastMig.at
            ELSE lastMig.invoked[i] >= lastMig.at
        /\ Recorded(schema) = IF lastMig.op = "upgrade" THEN lastMig.at - 1 ELSE lastMig.at

\* upgrade(2) was called with version 0 recorded; version 1 was installed, the
\* step of version 2 failed, and version 1 is recorded.
C32_Witness ==
    /\ StepFailed
    /\ lastMig.op = "upgrade"
    /\ Recorded(lastMig.before) = 0
    /\ lastMig.invoked = <<1, 2>>
    /\ Recorded(schema) = 1

\* ---------------------------------------------------------------- C33
\* C33: a call downgrade(id) with id registered, the pool configured, the
\* recorded installed version k at or above id and nothing failing invokes
\* downgrade() of versions k, k-1, ..., id, each once and in descending order,
\* returns true, and leaves id-1 recorded as installed: no version when id is 0.
C33_DowngradeRemovesInOrder ==
    (/\ lastMig.op = "downgrade"
     /\ lastMig.id \in Versions
     /\ lastMig.pool
     /\ lastMig.fault = "none"
     /\ lastMig.before.table
     /\ lastMig.id <= Recorded(lastMig.before)) =>
        /\ lastMig.invoked = Descending(Recorded(lastMig.before), lastMig.id)
        /\ lastMig.result
        /\ Recorded(schema) = lastMig.id - 1
        /\ lastMig.id = 0 => Recorded(schema) = NoVersion
        /\ \A v \in lastMig.id .. Recorded(lastMig.before) : v \notin applied

\* downgrade(0) was called with version 1 recorded, invoked versions 1 and 0 and
\* returned true; no version is recorded.
C33_Witness ==
    /\ lastMig.op = "downgrade"
    /\ lastMig.id = 0
    /\ Recorded(lastMig.before) = 1
    /\ lastMig.invoked = <<1, 0>>
    /\ lastMig.result
    /\ schema = [table |-> TRUE, row |-> NoVersion]

\* ---------------------------------------------------------------- C34
\* C34 as stated: upgrade(id) with the recorded installed version at or above
\* id, and downgrade(id) with id above the recorded installed version, no
\* version being installed included, return true, invoke no version and leave
\* the record as it was.
C34_NothingToDoReturnsTrue ==
    (/\ lastMig.pool
     /\ lastMig.fault = "none"
     /\ \/ lastMig.op = "upgrade" /\ Recorded(lastMig.before) >= lastMig.id
        \/ lastMig.op = "downgrade" /\ lastMig.id > Recorded(lastMig.before)) =>
        /\ lastMig.result
        /\ lastMig.invoked = <<>>
        /\ schema = lastMig.before

\* C34 amended: for a registered id, a configured pool and a version table
\* that exists and can be read, upgrade(id) with the recorded version at or
\* above id and downgrade(id) with id above the recorded version (an empty
\* table included) return true, invoke no version and leave the record as it
\* was; downgrade on a database whose version table does not exist or cannot
\* be read returns false, invokes no version and changes nothing.
C34_NothingToDoWhenTableReadable ==
    /\ (/\ lastMig.id \in Versions
        /\ lastMig.pool
        /\ lastMig.fault # "retrieve"
        /\ lastMig.before.table
        /\ \/ lastMig.op = "upgrade" /\ Recorded(lastMig.before) >= lastMig.id
           \/ lastMig.op = "downgrade" /\ lastMig.id > Recorded(lastMig.before)) =>
            /\ lastMig.result
            /\ lastMig.invoked = <<>>
            /\ schema = lastMig.before
    /\ (/\ lastMig.op = "downgrade"
        /\ (~lastMig.before.table \/ lastMig.fault = "retrieve")) =>
            /\ ~lastMig.result
            /\ lastMig.invoked = <<>>
            /\ schema = lastMig.before

\* downgrade(0) was called a second time, on the table the first call left
\* empty, and returned true with nothing invoked.
C34_Witness ==
    /\ lastMig.op = "downgrade"
    /\ lastMig.id = 0
    /\ lastMig.before = [table |-> TRUE, row |-> NoVersion]
    /\ lastMig.result
    /\ lastMig.invoked = <<>>
    /\ applied = {}

\* ---------------------------------------------------------------- C35
\* C35: after any sequence of connect_sqlite() and disconnect() calls,
\* initialized() is true exactly when backend() is Sqlite and exactly when
\* pool() is non-null; a failed connection attempt leaves the client
\* uninitialized with backend None and no pool, and an attempt on a connected
\* client returns false and leaves it connected.
C35_InitializedIffBackendIffPool ==
    /\ m_initialized <=> m_backend = "Sqlite"
    /\ m_initialized <=> m_pool
    /\ m_backend \in {"None", "Sqlite"}
    /\ (lastConnect.op = "connect_sqlite" /\ ~lastConnect.was /\ ~lastConnect.result) =>
            (~m_initialized /\ m_backend = "None" /\ ~m_pool)
    /\ (lastConnect.op = "connect_sqlite" /\ lastConnect.was) =>
            (~lastConnect.result /\ m_initialized /\ m_backend = "Sqlite" /\ m_pool)
    /\ (lastConnect.op = "connect_sqlite" /\ lastConnect.result) => m_initialized
    /\ lastConnect.op = "disconnect" => ~m_initialized

\* A connection attempt whose session failed to open has just been made on a
\* client that was not connected.
C35_Witness ==
    /\ lastConnect.op = "connect_sqlite"
    /\ lastConnect.how = "open_throws"
    /\ ~lastConnect.was
    /\ ~lastConnect.result
    /\ ~m_pool

\* ---------------------------------------------------------------- C40
\* The highest version applied to the database and not downgraded since, -1
\* when there is none.
HighestApplied ==
    IF applied = {} THEN NoVersion ELSE CHOOSE v \in applied : \A u \in applied : u <= v

\* C40: after any upgrade() or downgrade() call, also one in which the DELETE
\* or the INSERT of the version row fails, the recorded installed version is
\* the highest version whose upgrade has been applied and not since downgraded.
C40_RecordMatchesApplied == Recorded(schema) = HighestApplied

\* ---------------------------------------------------------------- Parser
\* The sizes a viewed buffer can have: an object is at most PTRDIFF_MAX bytes.
ViewSizes == 0..((SizeMod \div 2) - 1)

\* The values of a std::size_t argument.
SizeValues == 0..(SizeMod - 1)

\* The widths N of extract_integral and extract_floating_point that fit the
\* modelled word: sizeof of the 8, 16 and 32 bit types.
IntegralSizes == {n \in {1, 2, 4} : n < SizeMod}

\* The position, relative to the start of the view, of the byte at
\* m_view.data() + i: pointer arithmetic wraps like the address does.
PositionOf(i) ==
    LET w == i % SizeMod IN IF w >= SizeMod \div 2 THEN w - SizeMod ELSE w

\* Parser::check_bounds(): TRUE when std::out_of_range is thrown.  The sum is
\* made in std::size_t, without rejecting the wrap-around.
check_bounds(offset, count, size) == ToSize(offset + count) > size

\* What an extraction of count bytes at offset does: throw, or read the bytes
\* from m_view.data() + offset on.
Extraction(offset, count) ==
    IF check_bounds(offset, count, m_view)
    THEN [offset |-> offset, count |-> count, outcome |-> "out_of_range", read |-> {}]
    ELSE [offset |-> offset, count |-> count, outcome |-> "read",
          read |-> {PositionOf(offset + i) : i \in 0..(count - 1)}]

\* Parser::extract_integral<TValue, N>(offset), and extract_floating_point.
ExtractIntegral(offset, n) ==
    /\ lastExtract' = Extraction(offset, n)
    /\ UNCHANGED <<m_view, migVars, clientVars, copyVars>>
    /\ UNCHANGED <<treeVars, postVars, timerVars, listVars>>

\* Parser::extract_string(offset, count).
ExtractString(offset, count) ==
    /\ lastExtract' = Extraction(offset, count)
    /\ UNCHANGED <<m_view, migVars, clientVars, copyVars>>
    /\ UNCHANGED <<treeVars, postVars, timerVars, listVars>>

\* A Parser over a view of any size.
InitParser ==
    /\ RootAndChild("Component")
    /\ PostInit
    /\ TimerInit(0)
    /\ ListInit(<<>>)
    /\ MigInit
    /\ ClientInit
    /\ CopyInit(<<>>)
    /\ \E n \in ViewSizes : ParserInit(n)

NextParser ==
    \/ \E offset \in SizeValues : \E n \in IntegralSizes : ExtractIntegral(offset, n)
    \/ \E offset \in SizeValues : \E count \in SizeValues : ExtractString(offset, count)

SpecParser == InitParser /\ [][NextParser]_vars

\* ---------------------------------------------------------------- C36
\* C36: an extraction either throws std::out_of_range or reads only bytes at
\* positions inside [0, size()): every offset and count whose sum exceeds
\* size() is rejected, also when the sum overflows std::size_t.
C36_ThrowsOrReadsInside ==
    lastExtract.outcome # "none" =>
        /\ (lastExtract.offset + lastExtract.count > m_view) =>
                lastExtract.outcome = "out_of_range"
        /\ lastExtract.outcome = "read" => lastExtract.read \subseteq 0..(m_view - 1)

\* ---------------------------------------------------------------- C37
\* C37: once stop() has marked the event loop of a Root or Branch, the mark is
\* never reset, no further task is begun by that loop, and the tasks queued on
\* it stay queued and unexecuted, whether run() was entered before the stop,
\* after it, or returns and is entered again.
C37_QueuedAtStopNeverRun ==
    [][\A r \in Comp : (stopped[r] /\ status[r] = "alive" /\ status'[r] = "alive") =>
            /\ stopped'[r]
            /\ running'[r] \subseteq running[r]
            /\ \A s \in SeqsOf(queue[r]) :
                    s \in SeqsOf(queue'[r]) /\ execCount'[s] = execCount[s]]_vars

\* run() has returned on a stopped loop with a task still queued and no task
\* executed at all.
C37_Witness ==
    \E r \in Comp :
        /\ stopped[r] /\ loop[r] = "returned"
        /\ queue[r] # <<>>
        /\ \A s \in Seqs : execCount[s] = 0

\* ---------------------------------------------------------------- Timer lifetime
\* `delete timer`, by main() outside run() or by a posted task.  ~Timer is
\* defaulted: the members go in reverse order, and the destructor of m_timer
\* cancels the wait still pending in the timer queue, whose handler is queued
\* with operation_aborted; a handler the loop has already queued stays queued,
\* bound to the same `this`.  ~Component then leaves the parent's child list.
TimerDestroy(tm, from) ==
    /\ kind[tm] = "Timer" /\ Postable(tm)
    /\ storage[tm] = "heap" /\ m_children[tm] = <<>>
    /\ from \in {"main", "task"} /\ CanCall(tm, from)
    /\ queue' = [queue EXCEPT ![context(tm)] = @ \o cancel(m_timer)]
    /\ m_timer' = NoWait
    /\ waitLog' = Marked("destroy")
    /\ status' = [status EXCEPT ![tm] = "destroyed"]
    /\ m_children' = [m_children EXCEPT ![m_parent[tm]] = remove_child(@, tm)]
    /\ dtorCount' = [dtorCount EXCEPT ![tm] = Sat2(@ + 1)]
    /\ deleteCount' = [deleteCount EXCEPT ![tm] = Sat2(@ + 1)]
    /\ log' = Append(log, tm)
    /\ UNCHANGED <<kind, storage, m_parent, contextAlive, wrapped, scope, stack,
                   remaining, delOrder, ub, aborted>>
    /\ UNCHANGED <<m_duration, armed, fired, lastFire>>
    /\ UNCHANGED <<stopped, loop, running, lastRun, local, issued, lastN,
                   m_worker, spawned, execCount, discarded, lastCall, backlog>>
    /\ UNCHANGED <<listVars, auxVars>>

\* A Root on the stack of main and a Timer of any duration allocated with new
\* on it, never started.
InitTimerLife ==
    /\ kind = [c \in Comp |-> CASE c = 1 -> "Root" [] c = 2 -> "Timer" [] OTHER -> "none"]
    /\ storage = [c \in Comp |-> CASE c = 1 -> "stack" [] c = 2 -> "heap" [] OTHER -> "none"]
    /\ m_parent = [c \in Comp |-> IF c = 2 THEN 1 ELSE NULL]
    /\ m_children = [c \in Comp |-> IF c = 1 THEN add_child(<<>>, 2) ELSE <<>>]
    /\ status = [c \in Comp |-> IF c <= 2 THEN "alive" ELSE "unborn"]
    /\ contextAlive = [c \in Comp |-> c = 1]
    /\ wrapped = [c \in Comp |-> NULL]
    /\ scope = <<1>>
    /\ stack = <<>>
    /\ dtorCount = [c \in Comp |-> 0]
    /\ deleteCount = [c \in Comp |-> 0]
    /\ remaining = [c \in Comp |-> <<>>]
    /\ delOrder = [c \in Comp |-> <<>>]
    /\ log = <<>>
    /\ ub = FALSE
    /\ aborted = FALSE
    /\ PostInit
    /\ \E d \in Durations : TimerInit(d)
    /\ ListInit(<<>>)
    /\ AuxInit

NextTimerLife ==
    \/ \E tm \in Comp, from \in Callers : TimerStart(tm, from)
    \/ \E tm \in Comp, from \in Callers : TimerDestroy(tm, from)
    \/ Tick
    \/ \E tm \in Comp : Expire(tm)
    \/ \E r \in Comp : ExpirationBegin(r)
    \/ \E c \in Comp : Issued < MaxTasks /\ Post(MainThread, c)
    \/ \E r \in Comp : Run(r)
    \/ \E r \in Comp : TaskBegin(r)
    \/ \E r \in Comp : TaskEnd(r)

SpecTimerLife == InitTimerLife /\ [][NextTimerLife]_vars

\* ---------------------------------------------------------------- C38
\* C38: on_expired is never invoked on a destroyed Timer: whenever the event
\* loop is executing an expiration handler that invokes on_expired, the Timer
\* the handler is bound to is alive.
C38_NeverFiresOnDestroyedTimer ==
    \A r \in Comp : \A h \in running[r] :
        (h.by = 0 /\ handle_expiration(h.ec)) =>
            \A tm \in Comp : kind[tm] = "Timer" => status[tm] = "alive"

\* ---------------------------------------------------------------- CallbackList copies
\* CallbackList(const CallbackList&) = default and BaseCallback(const
\* BaseCallback&) = default: m_callable is copied as it is, and it holds
\* bind_front(&CallbackList::invoke_callbacks, this) with the `this` of the
\* object the callable was made for.  Its result is the object the copy's
\* callable is bound to.
CopyBound(src, self) == lists[src].bound

\* The first object not yet constructed.
NextListObj == CHOOSE n \in ListObjs : lists[n].state = "none" /\ \A m \in ListObjs : lists[m].state = "none" => n <= m

\* A copy of object src is constructed, as a CallbackList or, sliced, as the
\* placeholder type BaseCallback, which has m_callable and no m_callbacks.
CopyConstruct(src, asCallback) ==
    /\ lists[src].state = "alive"
    /\ \E n \in ListObjs : lists[n].state = "none"
    /\ lists' = [lists EXCEPT ![NextListObj] =
                    [state |-> "alive",
                     members |-> IF asCallback THEN <<>> ELSE lists[src].members,
                     bound |-> CopyBound(src, NextListObj),
                     sliced |-> asCallback \/ lists[src].sliced]]
    /\ UNCHANGED <<lastListCall, migVars, clientVars, parserVars>>
    /\ UNCHANGED <<treeVars, postVars, timerVars, listVars>>

\* ~CallbackList() of object o: m_callbacks and m_callable are destroyed.
DestroyList(o) ==
    /\ lists[o].state = "alive"
    /\ lists' = [lists EXCEPT ![o].state = "destroyed"]
    /\ UNCHANGED <<lastListCall, migVars, clientVars, parserVars>>
    /\ UNCHANGED <<treeVars, postVars, timerVars, listVars>>

\* BaseCallback::operator() on object o: m_callable(args...), that is
\* invoke_callbacks on the object m_callable is bound to, which walks that
\* object's m_callbacks.  When that object is destroyed the walk reads a
\* destroyed vector, which is undefined: it may find the old members or none.
InvokeCopy(o) ==
    /\ lists[o].state = "alive"
    /\ LET b == lists[o].bound
           call == [obj |-> o, via |-> b, valid |-> lists[b].state = "alive",
                    sliced |-> lists[o].sliced, own |-> lists[o].members,
                    dispatched |-> lists[b].members]
       IN
       IF lists[b].state = "alive"
       THEN lastListCall' = call
       ELSE \E d \in {<<>>, lists[b].members} : lastListCall' = [call EXCEPT !.dispatched = d]
    /\ UNCHANGED <<lists, migVars, clientVars, parserVars>>
    /\ UNCHANGED <<treeVars, postVars, timerVars, listVars>>

\* A Root, a Component on it, and a CallbackList built from any callbacks.
InitCopy ==
    /\ RootAndChild("Component")
    /\ PostInit
    /\ TimerInit(0)
    /\ ListInit(<<>>)
    /\ MigInit
    /\ ClientInit
    /\ ParserInit(0)
    /\ \E cbs \in ListsUpTo(MaxList) : CopyInit(cbs)

NextCopy ==
    \/ \E src \in ListObjs, asCallback \in BOOLEAN : CopyConstruct(src, asCallback)
    \/ \E o \in ListObjs : DestroyList(o)
    \/ \E o \in ListObjs : InvokeCopy(o)

SpecCopy == InitCopy /\ [][NextCopy]_vars

\* ---------------------------------------------------------------- C39
\* C39: invoking a copy of a CallbackList, also one stored as the placeholder
\* Callback type, dispatches to members that are alive, after the original has
\* been destroyed too, and a copy that is a CallbackList dispatches to its own
\* stored members.
C39_CopyDispatchesToOwnMembers ==
    lastListCall.obj # 0 =>
        /\ lastListCall.valid
        /\ ~lastListCall.sliced => lastListCall.dispatched = lastListCall.own

====
